---- MODULE Spec2Model ----
(***************************************************************************)
(* Query pipeline of the retrieval agent (src/agent.py): RetrievalAgent.   *)
(* query() and the functions it calls, the AgentResponse data model and    *)
(* the query classifier.                                                   *)
(*                                                                         *)
(* Text is a sequence of one-character strings, so that lower(), strip(),  *)
(* startswith(), slicing and the `in` substring test are computed, not     *)
(* assumed.  Optional[str] is a record [null, text].  Similarity scores    *)
(* are hundredths (0.9 is 90).                                             *)
(***************************************************************************)
EXTENDS Integers, Sequences, FiniteSets, TLC

VARIABLES
    pc,          \* position of the caller inside RetrievalAgent.query()
    index,       \* points stored in the Qdrant collection
    user_query,  \* argument of query()
    top_k,       \* argument of query()
    hits,        \* search_result_items returned by the vector store
    chunks,      \* retrieval_result.chunks: hits that survived the filter
    answer,      \* value returned by generate_answer()
    response,    \* the AgentResponse returned by query(), or NoResponse
    raised,      \* the exception that escaped query(), or None
    calls,       \* external calls issued during the current query()
    failed,      \* external services whose call failed during this query()
    failure,     \* message of the failed external call, or None
    cq,          \* classifier harness: the string under classification
    cres,        \* classifier harness: "unset", "true" or "false"
    ctor_args,   \* constructor harness: arguments of AgentResponse(...)
    ctor_out,    \* constructor harness: "unset", "accepted" or "rejected"
    ck_text,     \* chunk_text(): argument text
    ck_size,     \* chunk_text(): argument chunk_size
    ck_overlap,  \* chunk_text(): argument chunk_overlap
    ck_out,      \* chunk_text(): "unset", or what the call returned or raised
    em_texts,    \* embed(): argument texts
    em_pc,       \* embed(): position of the caller
    em_valid,    \* embed(): valid_texts
    em_i,        \* embed(): loop variable i (0-based offset of the batch)
    em_all,      \* embed(): all_embeddings
    em_sent,     \* batches handed to co.embed during this embed()
    em_attempts, \* co.embed calls made for the current batch
    rl_max,      \* cohere_rate_limit: max_requests_per_minute
    rl_clock,    \* wall clock, whole seconds
    rl_times,    \* the module global _cohere_request_times
    rl_pc,       \* position of each caller inside the rate-limit wrapper
    rl_now,      \* each caller's local `now`
    rl_read,     \* each caller's filtered list, computed but not yet stored
    rl_wake,     \* each caller's sleep: when it ends, and the entry waited for
    rl_issued,   \* times at which a caller was let through to func()
    cr_links,    \* the site: links found on each page
    cr_root,     \* get_all_urls(): argument root_url
    cr_max_depth,\* get_all_urls(): argument max_depth
    cr_pc,       \* get_all_urls(): position of the caller
    cr_queue,    \* get_all_urls(): queue of (url, depth)
    cr_visited,  \* get_all_urls(): visited_urls
    cr_discovered, \* get_all_urls(): discovered_urls
    cr_fetched,  \* pages requested so far, with the depth they were crawled at
    qd_store,    \* the vector store: configuration of each existing collection
    qd_creates,  \* create_collection requests the store has received
    qd_history,  \* create_collection() calls made so far, with their results
    se_history,  \* search operations called so far, with their outcomes
    se_searches, \* nearest-neighbour searches the store has received
    pipeline_status, \* main(): the ProcessingPipeline object, or NoPipeline
    ig_pc,       \* main(): position of the run
    ig_source,   \* the site and the command line of the run
    ig_work,     \* main(): urls, documents and the store counters
    ig_log,      \* steps the run has performed, in order
    ig_points,   \* ids of the points in the collection
    ig_runs,     \* ids upserted by each finished run
    cs_in,       \* ConfidenceScore: the signals, or the two retrieval results compared
    cs_out,      \* ConfidenceScore: overall and level as computed
    api_in,      \* query_endpoint(): the response agent.query() returned
    api_out,     \* query_endpoint(): the response sent to the client
    rt_cfg,      \* retry_api_call(): arguments and what func does on each call
    rt_pc,       \* retry_api_call(): position of the wrapper
    rt_state,    \* retry_api_call(): retries and current_delay
    rt_log,      \* retry_api_call(): invocations of func and sleeps, in order
    rt_out,      \* retry_api_call(): what the caller got
    bs_in,       \* batch_store_embeddings(): arguments and the store's behaviour
    bs_pc,       \* batch_store_embeddings(): position of the call
    bs_start,    \* batch_store_embeddings(): batch_start
    bs_results,  \* batch_store_embeddings(): the results dictionary
    bs_upserts,  \* upserts the store has received, in order
    dp_in,       \* main(): one extracted document and the chunking arguments
    dp_points    \* main(): points stored for that document

chunkVars == <<ck_text, ck_size, ck_overlap, ck_out>>
embedVars == <<em_texts, em_pc, em_valid, em_i, em_all, em_sent, em_attempts>>
rateVars == <<rl_max, rl_clock, rl_times, rl_pc, rl_now, rl_read, rl_wake,
              rl_issued>>
crawlVars == <<cr_links, cr_root, cr_max_depth, cr_pc, cr_queue, cr_visited,
               cr_discovered, cr_fetched>>
storeVars == <<qd_store, qd_creates, qd_history>>
searchVars == <<se_history, se_searches>>
ingestVars == <<pipeline_status, ig_pc, ig_source, ig_work, ig_log, ig_points, ig_runs>>
indexVars == <<storeVars, searchVars, ingestVars>>
confidenceVars == <<cs_in, cs_out>>
apiVars == <<api_in, api_out>>
retryVars == <<rt_cfg, rt_pc, rt_state, rt_log, rt_out>>
batchVars == <<bs_in, bs_pc, bs_start, bs_results, bs_upserts>>
documentVars == <<dp_in, dp_points>>
toolVars == <<confidenceVars, apiVars, retryVars, batchVars, documentVars>>
pipelineVars == <<chunkVars, embedVars, rateVars, crawlVars, indexVars, toolVars>>

vars == <<pc, index, user_query, top_k, hits, chunks, answer, response,
          raised, calls, failed, failure, cq, cres, ctor_args, ctor_out,
          pipelineVars>>

agentVars == <<pc, index, user_query, top_k, hits, chunks, answer, response,
               raised, calls, failed, failure>>
classifyVars == <<cq, cres>>
ctorVars == <<ctor_args, ctor_out>>

----------------------------------------------------------------------------
(* Bounds *)

\* hits the vector store returns to one search, at most
MaxHits == 2
\* length of the generated strings fed to the classifier
MaxGenLen == 3
MaxTextLen == 5
MaxChunkSize == 4
MaxTexts == 193
MaxRate == 2
MaxCalls == 4
MaxConcurrentCalls == 2
MaxClock == 121
MaxDepth == 2

----------------------------------------------------------------------------
(* Program constants *)

MaxQueryLen == 500
MinContentLen == 50
ExcerptLen == 100
DefaultTopK == 5
ScoreThreshold == 50
PreviewLen == 500

----------------------------------------------------------------------------
(* Python str operations *)

Rep(c, n) == [i \in 1..n |-> c]

UpperAlpha == <<"A","B","C","D","E","F","G","H","I","J","K","L","M","N","O","P","Q","R","S","T","U","V","W","X","Y","Z">>
LowerAlpha == <<"a","b","c","d","e","f","g","h","i","j","k","l","m","n","o","p","q","r","s","t","u","v","w","x","y","z">>
Whitespace == {" ", "\t", "\n", "\r", "\f"}

IsAlpha(c) == \E i \in 1..26 : UpperAlpha[i] = c \/ LowerAlpha[i] = c

LowerChar(c) ==
    IF \E i \in 1..26 : UpperAlpha[i] = c
    THEN LowerAlpha[CHOOSE i \in 1..26 : UpperAlpha[i] = c]
    ELSE c

\* str.lower()
Lower(s) == [i \in 1..Len(s) |-> LowerChar(s[i])]

\* index of the first character at or after i that is not whitespace
RECURSIVE SkipRight(_, _)
SkipRight(s, i) ==
    IF i > Len(s) THEN i
    ELSE IF s[i] \in Whitespace THEN SkipRight(s, i + 1) ELSE i

\* index of the last character at or before i that is not whitespace
RECURSIVE SkipLeft(_, _)
SkipLeft(s, i) ==
    IF i < 1 THEN i
    ELSE IF s[i] \in Whitespace THEN SkipLeft(s, i - 1) ELSE i

\* str.strip()
Strip(s) == SubSeq(s, SkipRight(s, 1), SkipLeft(s, Len(s)))

\* str.startswith(p)
StartsWith(s, p) == Len(s) >= Len(p) /\ SubSeq(s, 1, Len(p)) = p

\* `sub in s`
Contains(s, sub) ==
    \E i \in 0..(Len(s) - Len(sub)) : SubSeq(s, i + 1, i + Len(sub)) = sub

\* s[:n]
Take(s, n) == SubSeq(s, 1, IF Len(s) < n THEN Len(s) ELSE n)

\* Optional[str]
None == [null |-> TRUE, text |-> <<>>]
Some(s) == [null |-> FALSE, text |-> s]

----------------------------------------------------------------------------
(* Query classifier *)

greeting_patterns == <<
    <<"h","e","l","l","o">>, <<"h","i">>, <<"h","e","y">>, <<"g","r","e","e","t","i","n","g","s">>, <<"g","o","o","d"," ","m","o","r","n","i","n","g">>,
    <<"h","o","w"," ","a","r","e"," ","y","o","u">>, <<"w","h","o"," ","a","r","e"," ","y","o","u">>, <<"w","h","a","t"," ","c","a","n"," ","y","o","u"," ","d","o">>,
    <<"t","h","a","n","k","s">>, <<"b","y","e">>, <<"h","e","l","p">> >>

\* the prefix test without the trailing space
_is_greeting_or_low_intent_NoSpace(query) ==
    IF query = <<>> THEN TRUE
    ELSE LET normalized_query == Strip(Lower(query))
         IN  IF \E k \in 1..Len(greeting_patterns) :
                    \/ normalized_query = greeting_patterns[k]
                    \/ StartsWith(normalized_query, greeting_patterns[k])
             THEN TRUE
             ELSE IF /\ Len(Strip(normalized_query)) < 3
                     /\ ~ \E i \in 1..Len(normalized_query) : IsAlpha(normalized_query[i])
                  THEN TRUE
                  ELSE FALSE

_is_greeting_or_low_intent(query) ==
    IF query = <<>> THEN TRUE
    ELSE LET normalized_query == Strip(Lower(query))
         IN  IF \E k \in 1..Len(greeting_patterns) :
                    \/ normalized_query = greeting_patterns[k]
                    \/ StartsWith(normalized_query, greeting_patterns[k] \o <<" ">>)
             THEN TRUE
             ELSE IF /\ Len(Strip(normalized_query)) < 3
                     /\ ~ \E i \in 1..Len(normalized_query) : IsAlpha(normalized_query[i])
                  THEN TRUE
                  ELSE FALSE

_handle_greeting_query ==
    <<"H","e","l","l","o","!"," ","I","'","m"," ","y","o","u","r"," ","A","I"," ","a","s","s","i","s","t","a","n","t"," ","f","o","r"," ","t","h","e"," ","H","u","m","a","n","o","i","d"," ","R","o","b","o","t","i","c","s"," ","T","e","x","t","b","o","o","k","."," ","I"," ","c","a","n"," ","h","e","l","p"," ","a","n","s","w","e","r"," ","q","u","e","s","t","i","o","n","s"," ","a","b","o","u","t"," ","h","u","m","a","n","o","i","d"," ","r","o","b","o","t","i","c","s"," ","c","o","n","c","e","p","t","s","."," ","W","h","a","t"," ","w","o","u","l","d"," ","y","o","u"," ","l","i","k","e"," ","t","o"," ","k","n","o","w","?">>

----------------------------------------------------------------------------
(* Query.__post_init__: the message of the ValueError it raises, or None *)

EmptyQueryError == <<"Q","u","e","r","y"," ","t","e","x","t"," ","c","a","n","n","o","t"," ","b","e"," ","e","m","p","t","y">>
LongQueryError == <<"Q","u","e","r","y"," ","t","e","x","t"," ","t","o","o"," ","l","o","n","g"," ","(","m","a","x"," ","5","0","0"," ","c","h","a","r","a","c","t","e","r","s",")">>

QueryPostInit(text) ==
    IF text = <<>> \/ Strip(text) = <<>> THEN Some(EmptyQueryError)
    ELSE IF Len(text) > MaxQueryLen THEN Some(LongQueryError)
    ELSE None

----------------------------------------------------------------------------
(* Data model *)

SUCCESS == "success"
CONVERSATIONAL == "conversational"
INSUFFICIENT_CONTEXT == "insufficient_context"
ERROR == "error"
ResponseStatus == {SUCCESS, CONVERSATIONAL, INSUFFICIENT_CONTEXT, ERROR}

\* ConfidenceScore(retrieval_quality, coverage_score, entailment_score,
\* lexical_overlap), in hundredths; NoConfidence is confidence=None
ConfidenceScore(rq, cov, ent, lex) ==
    [null |-> FALSE, retrieval_quality |-> rq, coverage_score |-> cov,
     entailment_score |-> ent, lexical_overlap |-> lex]
NoConfidence ==
    [null |-> TRUE, retrieval_quality |-> 0, coverage_score |-> 0,
     entailment_score |-> 0, lexical_overlap |-> 0]

\* the dataclass AgentResponse declares its fields and no __post_init__:
\* the message of the error its construction raises, or None
AgentResponsePostInit(status, ans, sources, error_message) == None

AgentResponse(status, ans, confidence, sources, error_message) ==
    [status |-> status, answer |-> ans, confidence |-> confidence,
     sources |-> sources, error_message |-> error_message]

\* query() has not returned
NoResponse == AgentResponse("none", None, NoConfidence, <<>>, None)

----------------------------------------------------------------------------
(* The vector store and the services, as the agent sees them *)

LongContent == <<"H","u","m","a","n","o","i","d"," ","r","o","b","o","t","s"," ","k","e","e","p"," ","t","h","e","i","r"," ","b","a","l","a","n","c","e"," ","b","y"," ","m","o","v","i","n","g"," ","t","h","e"," ","z","e","r","o"," ","m","o","m","e","n","t"," ","p","o","i","n","t","."," ">> \o Rep("x", 60)
MediumContent == <<"I","n","v","e","r","s","e"," ","k","i","n","e","m","a","t","i","c","s"," ","m","a","p","s"," ","a"," ","p","o","s","e"," ","t","o"," ","j","o","i","n","t"," ","a","n","g","l","e","s"," ","o","f"," ","a"," ","r","o","b","o","t",".">>
ShortContent == <<"T","o","o"," ","s","h","o","r","t",".">>
PaddedContent == <<"G","a","i","t"," ","p","l","a","n","n","i","n","g"," ","p","i","c","k","s"," ","t","h","e"," ","n","e","x","t"," ","f","o","o","t","s","t","e","p",".">> \o Rep(" ", 20)

\* ingestion stores the chunk as content and its first 500 characters as
\* content_preview (src/main.py:505-506, 1011-1012)
Point(id, content) ==
    [id |-> id, content |-> content, content_preview |-> Take(content, PreviewLen)]

Points == { Point(1, LongContent), Point(2, MediumContent),
            Point(3, ShortContent), Point(4, PaddedContent) }

ScoreValues == {40, 60, 90}
TopKs == {1, DefaultTopK}

Min(a, b) == IF a < b THEN a ELSE b

ScoredPoints(idx, score_threshold) ==
    { [id |-> p.id, content |-> p.content, content_preview |-> p.content_preview,
       score |-> s] : p \in idx, s \in {v \in ScoreValues : v >= score_threshold} }

\* what a nearest-neighbour search may return: at most `limit` distinct
\* points of the collection, each scored at or above the threshold,
\* descending by score
SearchResults(idx, limit, score_threshold) ==
    UNION { { h \in [1..n -> ScoredPoints(idx, score_threshold)] :
                /\ \A i, j \in 1..n : i # j => h[i].id # h[j].id
                /\ \A i \in 1..n : \A j \in 1..n : i < j => h[i].score >= h[j].score }
            : n \in 0..Min(Min(limit, MaxHits), Cardinality(idx)) }

CollectionNotFound == <<"Q","d","r","a","n","t"," ","c","o","l","l","e","c","t","i","o","n"," ","'","r","a","g","_","e","m","b","e","d","d","i","n","g","'"," ","n","o","t"," ","f","o","u","n","d",".">>
EmbedErrors == { <<"4","2","9"," ","t","o","o"," ","m","a","n","y"," ","r","e","q","u","e","s","t","s">> }
StoreErrors == { <<"c","o","n","n","e","c","t","i","o","n"," ","r","e","f","u","s","e","d">> }
ChatErrors == { <<"s","t","a","t","u","s"," ","4","0","4">>, <<"U","n","k","n","o","w","n"," ","M","o","d","e","l">>, <<"s","t","a","t","u","s"," ","4","0","1">>,
                <<"I","n","v","a","l","i","d"," ","A","P","I"," ","K","e","y">>, <<"r","e","q","u","e","s","t"," ","t","i","m","e","d"," ","o","u","t">> }

GeneratedTexts == {
    <<"H","u","m","a","n","o","i","d"," ","r","o","b","o","t","s"," ","b","a","l","a","n","c","e"," ","w","i","t","h"," ","t","h","e"," ","z","e","r","o"," ","m","o","m","e","n","t"," ","p","o","i","n","t",".">>,
    <<"I"," ","c","a","n","n","o","t"," ","f","i","n","d"," ","s","u","f","f","i","c","i","e","n","t"," ","i","n","f","o","r","m","a","t","i","o","n"," ","i","n"," ","t","h","e"," ","p","r","o","v","i","d","e","d"," ","d","o","c","u","m","e","n","t","s",".">>,
    <<"T","h","e","r","e"," ","i","s"," ","s","u","f","f","i","c","i","e","n","t"," ","i","n","f","o","r","m","a","t","i","o","n"," ","o","n"," ","g","a","i","t",","," ","b","u","t"," ","I"," ","c","a","n","n","o","t"," ","f","i","n","d"," ","t","h","e"," ","t","o","r","q","u","e",".">>,
    <<"I"," ","c","a","n","n","o","t"," ","f","i","n","d"," ","t","h","e"," ","p","a","g","e"," ","n","u","m","b","e","r",".">>,
    <<"C","a","n","n","o","t"," ","f","i","n","d"," ","S","u","f","f","i","c","i","e","n","t"," ","I","n","f","o","r","m","a","t","i","o","n",".">>,
    <<>> }

Queries == {
    <<>>, <<" "," "," ">>, <<"h","i">>, <<" ","H","e","l","l","o"," ">>, <<"w","h","o"," ","a","r","e"," ","y","o","u">>, <<"h","i"," ","r","o","b","o","t">>,
    <<"h","e","l","l","o"," ","w","o","r","l","d"," ","p","r","o","g","r","a","m","m","i","n","g">>, <<"?">>,
    <<"h","i"," ">> \o Rep("x", MaxQueryLen - 3), <<"h","i"," ">> \o Rep("x", MaxQueryLen),
    Rep("q", MaxQueryLen + 1),
    <<"w","h","a","t"," ","i","s"," ","r","o","b","o","t","i","c","s">>, <<"w","h","a","t"," ","a","r","e"," ","y","o","u">>, <<"e","x","p","l","a","i","n"," ","g","a","i","t">> }

----------------------------------------------------------------------------
(* retrieve_information: the filter over the search hits *)

\* result.payload.get('content', '') or result.payload.get('content_preview', '') or ''
FullContent(hit) ==
    IF hit.content # <<>> THEN hit.content
    ELSE IF hit.content_preview # <<>> THEN hit.content_preview
    ELSE <<>>

\* variant: the length is taken without strip()
KeepHit_Unstripped(hit) == Len(FullContent(hit)) >= MinContentLen

KeepHit(hit) == Len(Strip(FullContent(hit))) >= MinContentLen

TextChunk(hit) ==
    [chunk_id |-> hit.id, text |-> FullContent(hit), similarity_score |-> hit.score]

RECURSIVE FilterHits(_)
FilterHits(items) ==
    IF items = <<>> THEN <<>>
    ELSE (IF KeepHit(Head(items)) THEN <<TextChunk(Head(items))>> ELSE <<>>)
         \o FilterHits(Tail(items))

----------------------------------------------------------------------------
(* generate_answer *)

\* variant: the fallback sentence reworded
NoChunksAnswer_Reworded ==
    <<"N","o"," ","r","e","l","e","v","a","n","t"," ","p","a","s","s","a","g","e","s"," ","w","e","r","e"," ","f","o","u","n","d"," ","i","n"," ","t","h","e"," ","t","e","x","t","b","o","o","k"," ","f","o","r"," ","t","h","i","s"," ","q","u","e","s","t","i","o","n",".">>

NoChunksAnswer ==
    <<"I"," ","c","a","n","n","o","t"," ","f","i","n","d"," ","s","u","f","f","i","c","i","e","n","t"," ","i","n","f","o","r","m","a","t","i","o","n"," ","i","n"," ","t","h","e"," ","p","r","o","v","i","d","e","d"," ","t","e","x","t","b","o","o","k"," ","c","o","n","t","e","n","t"," ","t","o"," ","a","n","s","w","e","r"," ","t","h","i","s"," ","q","u","e","s","t","i","o","n",".">>

ModelUnavailable ==
    <<"T","h","e"," ","A","I"," ","m","o","d","e","l"," ","i","s"," ","c","u","r","r","e","n","t","l","y"," ","u","n","a","v","a","i","l","a","b","l","e","."," ","P","l","e","a","s","e"," ","c","o","n","t","a","c","t"," ","s","u","p","p","o","r","t"," ","o","r"," ","t","r","y"," ","a","g","a","i","n"," ","l","a","t","e","r",".">>
AuthFailed == <<"A","u","t","h","e","n","t","i","c","a","t","i","o","n"," ","f","a","i","l","e","d","."," ","P","l","e","a","s","e"," ","c","h","e","c","k"," ","t","h","e"," ","A","P","I"," ","c","o","n","f","i","g","u","r","a","t","i","o","n",".">>
GenerationError ==
    <<"I"," ","e","n","c","o","u","n","t","e","r","e","d"," ","a","n"," ","e","r","r","o","r"," ","g","e","n","e","r","a","t","i","n","g"," ","t","h","e"," ","a","n","s","w","e","r","."," ","P","l","e","a","s","e"," ","t","r","y"," ","a","g","a","i","n"," ","o","r"," ","c","o","n","t","a","c","t"," ","s","u","p","p","o","r","t",".">>

\* the except branch of generate_answer: the text it returns for str(e)
ChatErrorAnswer(error_str) ==
    IF Contains(error_str, <<"4","0","4">>) \/ Contains(Lower(error_str), <<"m","o","d","e","l">>)
    THEN ModelUnavailable
    ELSE IF Contains(error_str, <<"4","0","1">>) \/ Contains(Lower(error_str), <<"a","p","i"," ","k","e","y">>)
    THEN AuthFailed
    ELSE GenerationError

----------------------------------------------------------------------------
(* query(): confidence, sources and status of the response *)

\* variant: min() in place of max()
MaxScore_Lowest(cs) ==
    LET scores == {cs[i].similarity_score : i \in 1..Len(cs)} \ {0}
    IN  IF scores = {} THEN 0
        ELSE CHOOSE m \in scores : \A s \in scores : m <= s

MaxScore(cs) ==
    LET scores == {cs[i].similarity_score : i \in 1..Len(cs)} \ {0}
    IN  IF scores = {} THEN 0
        ELSE CHOOSE m \in scores : \A s \in scores : m >= s

\* variant: coverage_score is set to 1.0
Confidence_FullCoverage(cs) ==
    IF cs # <<>> THEN ConfidenceScore(MaxScore(cs), 100, 80, 0)
    ELSE ConfidenceScore(0, 0, 0, 0)

Confidence(cs) ==
    IF cs # <<>> THEN ConfidenceScore(MaxScore(cs), 80, 80, 0)
    ELSE ConfidenceScore(0, 0, 0, 0)

Ellipsis == <<".",".",".">>

\* variant: enumerate(chunks) without the start index 1
SourceReference_ZeroBased(i, chunk) ==
    [chunk_id |-> chunk.chunk_id, citation_index |-> i - 1,
     relevance_score |-> chunk.similarity_score,
     excerpt |-> Take(chunk.text, ExcerptLen) \o Ellipsis]

SourceReference(i, chunk) ==
    [chunk_id |-> chunk.chunk_id, citation_index |-> i,
     relevance_score |-> chunk.similarity_score,
     excerpt |-> Take(chunk.text, ExcerptLen) \o Ellipsis]

BuildSources(cs) == [i \in 1..Len(cs) |-> SourceReference(i, cs[i])]

\* variant: the test asks for either phrase instead of both
IsInsufficient_Either(ans) ==
    Contains(ans, <<"s","u","f","f","i","c","i","e","n","t"," ","i","n","f","o","r","m","a","t","i","o","n">>) \/ Contains(ans, <<"c","a","n","n","o","t"," ","f","i","n","d">>)

IsInsufficient(ans) ==
    Contains(ans, <<"s","u","f","f","i","c","i","e","n","t"," ","i","n","f","o","r","m","a","t","i","o","n">>) /\ Contains(ans, <<"c","a","n","n","o","t"," ","f","i","n","d">>)

\* the response query() builds from the retrieval result and the answer
AssembleResponse(cs, ans) ==
    IF IsInsufficient(ans)
    THEN AgentResponse(INSUFFICIENT_CONTEXT, None, Confidence(cs), BuildSources(cs), Some(ans))
    ELSE AgentResponse(SUCCESS, Some(ans), Confidence(cs), BuildSources(cs), None)

GreetingResponse ==
    AgentResponse(CONVERSATIONAL, Some(_handle_greeting_query),
                  ConfidenceScore(100, 100, 100, 100), <<>>, None)

\* variant: the except branch drops the message
ErrorResponse_NoMessage(msg) == AgentResponse(ERROR, None, NoConfidence, <<>>, None)

\* the except branch of query()
ErrorResponse(msg) == AgentResponse(ERROR, None, NoConfidence, <<>>, Some(msg))

\* AgentResponse(...) is evaluated inside the try of query(): an error
\* raised by the construction is caught by its except branch
Constructed(r) ==
    LET err == AgentResponsePostInit(r.status, r.answer, r.sources, r.error_message)
    IN  IF err = None THEN r ELSE ErrorResponse(err.text)

----------------------------------------------------------------------------
(* RetrievalAgent.query(), one action per step *)

NoCalls == [embed |-> 0, store |-> 0, chat |-> 0]

AtRest ==
    /\ pc = "idle"
    /\ user_query = <<>>
    /\ top_k = DefaultTopK
    /\ hits = <<>>
    /\ chunks = <<>>
    /\ answer = None
    /\ response = NoResponse
    /\ raised = None
    /\ calls = NoCalls
    /\ failed = {}
    /\ failure = None

HarnessAtRest ==
    /\ cq = <<>>
    /\ cres = "unset"
    /\ ctor_args = AgentResponse("none", None, NoConfidence, <<>>, None)
    /\ ctor_out = "unset"

\* chunk_text() not called yet; the arguments hold the signature's defaults
ChunkAtRest ==
    /\ ck_text = <<>>
    /\ ck_size = 1000
    /\ ck_overlap = 100
    /\ ck_out = [kind |-> "unset", chunks |-> <<>>, error |-> ""]

\* embed() not called yet
EmbedAtRest ==
    /\ em_texts = <<>>
    /\ em_pc = "idle"
    /\ em_valid = <<>>
    /\ em_i = 0
    /\ em_all = <<>>
    /\ em_sent = <<>>
    /\ em_attempts = 0

\* threads that may call a rate-limited function
Callers == 1..2

\* the caller did not have to sleep
NoSleep == [until |-> 0, oldest |-> -1]

\* the module was just imported: _cohere_request_times = [], nobody calling
RateAtRest ==
    /\ rl_max = 60
    /\ rl_clock = 0
    /\ rl_times = <<>>
    /\ rl_pc = [c \in Callers |-> "off"]
    /\ rl_now = [c \in Callers |-> 0]
    /\ rl_read = [c \in Callers |-> <<>>]
    /\ rl_wake = [c \in Callers |-> NoSleep]
    /\ rl_issued = <<>>

\* get_all_urls() not called yet
CrawlAtRest ==
    /\ cr_links = <<>>
    /\ cr_root = <<>>
    /\ cr_max_depth = 2
    /\ cr_pc = "idle"
    /\ cr_queue = <<>>
    /\ cr_visited = {}
    /\ cr_discovered = {}
    /\ cr_fetched = <<>>

\* no collection yet, create_collection() not called yet
StoreAtRest ==
    /\ qd_store = <<>>
    /\ qd_creates = <<>>
    /\ qd_history = <<>>

\* no search operation called yet
SearchAtRest ==
    /\ se_history = <<>>
    /\ se_searches = <<>>

\* before main() builds its ProcessingPipeline
NoPipeline == [status |-> "none", errors |-> <<>>]
NoSource == [urls |-> <<>>, test_mode |-> FALSE]
NoWork == [urls |-> <<>>, documents |-> <<>>, next |-> 1, successful_stores |-> 0,
           failed_stores |-> 0, ids |-> {}, failures |-> 0]

\* main() not started
IngestAtRest ==
    /\ pipeline_status = NoPipeline
    /\ ig_pc = "idle"
    /\ ig_source = NoSource
    /\ ig_work = NoWork
    /\ ig_log = <<>>
    /\ ig_points = {}
    /\ ig_runs = <<>>

IndexAtRest == StoreAtRest /\ SearchAtRest /\ IngestAtRest

\* no ConfidenceScore built yet
ConfidenceAtRest ==
    /\ cs_in = <<>>
    /\ cs_out = <<>>

\* no request received by the endpoint yet
ApiAtRest ==
    /\ api_in = <<>>
    /\ api_out = <<>>

\* no wrapper returned by retry_api_call() called yet
RetryAtRest ==
    /\ rt_cfg = <<>>
    /\ rt_pc = "idle"
    /\ rt_state = <<>>
    /\ rt_log = <<>>
    /\ rt_out = <<>>

\* batch_store_embeddings() not called yet
BatchAtRest ==
    /\ bs_in = <<>>
    /\ bs_pc = "idle"
    /\ bs_start = 0
    /\ bs_results = <<>>
    /\ bs_upserts = <<>>

\* no document handed to the chunking loop yet
DocumentAtRest ==
    /\ dp_in = <<>>
    /\ dp_points = <<>>

ToolsAtRest ==
    ConfidenceAtRest /\ ApiAtRest /\ RetryAtRest /\ BatchAtRest /\ DocumentAtRest

PipelineAtRest ==
    ChunkAtRest /\ EmbedAtRest /\ RateAtRest /\ CrawlAtRest /\ IndexAtRest /\ ToolsAtRest

Init ==
    /\ AtRest
    /\ index \in SUBSET Points
    /\ HarnessAtRest
    /\ PipelineAtRest

\* the except branch of query(): any exception raised inside the try
Catch(msg) ==
    /\ response' = Constructed(ErrorResponse(msg))
    /\ pc' = "done"

\* a call to an external service raised `msg`
ServiceFails(service, msg) ==
    /\ failed' = failed \cup {service}
    /\ failure' = Some(msg)

\* query(user_query, top_k): Query(text=user_query) is built before the try,
\* so the ValueError of Query.__post_init__ leaves query()
Start ==
    /\ pc = "idle"
    /\ \E q \in Queries, k \in TopKs :
        /\ user_query' = q
        /\ top_k' = k
        /\ IF QueryPostInit(q) = None
           THEN pc' = "classify" /\ raised' = None
           ELSE pc' = "raised" /\ raised' = QueryPostInit(q)
    /\ hits' = <<>>
    /\ chunks' = <<>>
    /\ answer' = None
    /\ response' = NoResponse
    /\ calls' = NoCalls
    /\ failed' = {}
    /\ failure' = None
    /\ UNCHANGED <<index, cq, cres, ctor_args, ctor_out, pipelineVars>>

Classify ==
    /\ pc = "classify"
    /\ IF _is_greeting_or_low_intent(user_query)
       THEN /\ response' = Constructed(GreetingResponse)
            /\ pc' = "done"
       ELSE /\ pc' = "get_collection"
            /\ UNCHANGED response
    /\ UNCHANGED <<index, user_query, top_k, hits, chunks, answer, raised,
                   calls, failed, failure, cq, cres, ctor_args, ctor_out, pipelineVars>>

\* retrieve_information: qdrant_client.get_collection(collection_name);
\* whatever it raises is replaced by ValueError("Qdrant collection ... not found.")
GetCollection ==
    /\ pc = "get_collection"
    /\ calls' = [calls EXCEPT !.store = @ + 1]
    /\ \/ /\ pc' = "embed"
          /\ UNCHANGED <<response, failed, failure>>
       \/ /\ ServiceFails("store", CollectionNotFound)
          /\ Catch(CollectionNotFound)
    /\ UNCHANGED <<index, user_query, top_k, hits, chunks, answer, raised,
                   cq, cres, ctor_args, ctor_out, pipelineVars>>

\* get_embedding(query, input_type="search_query")
Embed ==
    /\ pc = "embed"
    /\ calls' = [calls EXCEPT !.embed = @ + 1]
    /\ \/ /\ pc' = "query_points"
          /\ UNCHANGED <<response, failed, failure>>
       \/ \E e \in EmbedErrors :
            /\ ServiceFails("embed", e)
            /\ Catch(e)
    /\ UNCHANGED <<index, user_query, top_k, hits, chunks, answer, raised,
                   cq, cres, ctor_args, ctor_out, pipelineVars>>

\* the hits are filtered into chunks, then the collection is read again
Retrieved(items) ==
    /\ hits' = items
    /\ chunks' = FilterHits(items)
    /\ pc' = "collection_info"

\* qdrant_client.query_points(...); a client without it raises
\* AttributeError and search(...) is called instead
QueryPoints ==
    /\ pc = "query_points"
    /\ \/ /\ calls' = [calls EXCEPT !.store = @ + 1]
          /\ \E items \in SearchResults(index, top_k, ScoreThreshold) : Retrieved(items)
          /\ UNCHANGED <<response, failed, failure>>
       \/ /\ pc' = "search"
          /\ UNCHANGED <<calls, hits, chunks, response, failed, failure>>
       \/ /\ calls' = [calls EXCEPT !.store = @ + 1]
          /\ \E e \in StoreErrors :
                /\ ServiceFails("store", e)
                /\ Catch(e)
          /\ UNCHANGED <<hits, chunks>>
    /\ UNCHANGED <<index, user_query, top_k, answer, raised,
                   cq, cres, ctor_args, ctor_out, pipelineVars>>

Search ==
    /\ pc = "search"
    /\ calls' = [calls EXCEPT !.store = @ + 1]
    /\ \/ /\ \E items \in SearchResults(index, top_k, ScoreThreshold) : Retrieved(items)
          /\ UNCHANGED <<response, failed, failure>>
       \/ /\ \E e \in StoreErrors :
                /\ ServiceFails("store", e)
                /\ Catch(e)
          /\ UNCHANGED <<hits, chunks>>
    /\ UNCHANGED <<index, user_query, top_k, answer, raised,
                   cq, cres, ctor_args, ctor_out, pipelineVars>>

\* collection_info = qdrant_client.get_collection(...); RetrievalResult(
\* query=Query(text=query), ...) validates the same text again
CollectionInfo ==
    /\ pc = "collection_info"
    /\ calls' = [calls EXCEPT !.store = @ + 1]
    /\ \/ /\ IF QueryPostInit(user_query) = None
             THEN pc' = "generate" /\ UNCHANGED response
             ELSE Catch(QueryPostInit(user_query).text)
          /\ UNCHANGED <<failed, failure>>
       \/ \E e \in StoreErrors :
            /\ ServiceFails("store", e)
            /\ Catch(e)
    /\ UNCHANGED <<index, user_query, top_k, hits, chunks, answer, raised,
                   cq, cres, ctor_args, ctor_out, pipelineVars>>

\* generate_answer(user_query, retrieval_result.chunks)
Generate ==
    /\ pc = "generate"
    /\ IF chunks = <<>>
       THEN /\ answer' = Some(NoChunksAnswer)
            /\ UNCHANGED <<calls, failed, failure>>
       ELSE /\ calls' = [calls EXCEPT !.chat = @ + 1]
            /\ \/ /\ \E text \in GeneratedTexts : answer' = Some(text)
                  /\ UNCHANGED <<failed, failure>>
               \/ \E e \in ChatErrors :
                    /\ ServiceFails("chat", e)
                    /\ answer' = Some(ChatErrorAnswer(e))
    /\ pc' = "assemble"
    /\ UNCHANGED <<index, user_query, top_k, hits, chunks, response, raised,
                   cq, cres, ctor_args, ctor_out, pipelineVars>>

\* confidence, sources, status and the returned AgentResponse
Assemble ==
    /\ pc = "assemble"
    /\ response' = Constructed(AssembleResponse(chunks, answer.text))
    /\ pc' = "done"
    /\ UNCHANGED <<index, user_query, top_k, hits, chunks, answer, raised,
                   calls, failed, failure, cq, cres, ctor_args, ctor_out, pipelineVars>>

Next ==
    \/ Start
    \/ Classify
    \/ GetCollection
    \/ Embed
    \/ QueryPoints
    \/ Search
    \/ CollectionInfo
    \/ Generate
    \/ Assemble

Spec == Init /\ [][Next]_vars

----------------------------------------------------------------------------
(* The classifier applied to one string *)

GenAlphabet == {"h", "i", "H", " ", "7", "?"}

GenStrings == UNION { [1..n -> GenAlphabet] : n \in 0..MaxGenLen }

GreetingList == {
    <<"h","i">>, <<"h","e","l","l","o">>, <<"h","o","w"," ","a","r","e"," ","y","o","u">>, <<"w","h","a","t"," ","a","r","e"," ","y","o","u">>, <<"w","h","o"," ","a","r","e"," ","y","o","u">>,
    <<"b","y","e">>, <<"t","h","a","n","k","s">> }

ContentList == {
    <<"w","h","a","t"," ","i","s"," ","r","o","b","o","t","i","c","s">>, <<"w","h","a","t"," ","i","s"," ","h","u","m","a","n","o","i","d"," ","l","o","c","o","m","o","t","i","o","n">>,
    <<"e","x","p","l","a","i","n"," ","i","n","v","e","r","s","e"," ","k","i","n","e","m","a","t","i","c","s">>, <<"t","e","l","l"," ","m","e"," ","a","b","o","u","t"," ","g","a","i","t"," ","p","l","a","n","n","i","n","g">>,
    <<"h","e","l","l","o"," ","w","o","r","l","d"," ","p","r","o","g","r","a","m","m","i","n","g">>, <<"h","i"," ","r","o","b","o","t">>,
    <<"h","o","w"," ","d","o","e","s"," ","i","n","v","e","r","s","e"," ","k","i","n","e","m","a","t","i","c","s"," ","w","o","r","k">> }

\* a phrase in the middle, or as a prefix that no space follows
EmbeddedList == {
    <<"s","a","y"," ","h","i">>, <<"o","h"," ","h","e","l","l","o"," ","t","h","e","r","e">>, <<"h","e","l","p","f","u","l"," ","r","o","b","o","t","s">>, <<"T","h","a","n","k","s","g","i","v","i","n","g">>,
    <<" "," ","H","E","L","P"," ","m","e">>, <<"B","y","e"," ">> }

ClassifyInputs == GenStrings \cup GreetingList \cup ContentList \cup EmbeddedList

InitClassify ==
    /\ AtRest
    /\ index = {}
    /\ cq \in ClassifyInputs
    /\ cres = "unset"
    /\ ctor_args = AgentResponse("none", None, NoConfidence, <<>>, None)
    /\ ctor_out = "unset"
    /\ PipelineAtRest

ClassifyQuery ==
    /\ cres = "unset"
    /\ cres' = IF _is_greeting_or_low_intent(cq) THEN "true" ELSE "false"
    /\ UNCHANGED <<agentVars, cq, ctor_args, ctor_out, pipelineVars>>

NextClassify == ClassifyQuery

SpecClassify == InitClassify /\ [][NextClassify]_vars

----------------------------------------------------------------------------
(* AgentResponse(...) built directly by a caller *)

CtorAnswers == { None, Some(<<>>), Some(<<"T","h","i","s"," ","i","s"," ","a"," ","t","e","s","t"," ","a","n","s","w","e","r">>) }
CtorErrorMessages == { None, Some(<<>>), Some(<<"t","e","s","t"," ","e","r","r","o","r">>) }
CtorConfidences == { NoConfidence, ConfidenceScore(0, 0, 0, 0) }
TestChunk(id) == [chunk_id |-> id, text |-> <<"t","e","s","t"," ","e","x","c","e","r","p","t">>, similarity_score |-> 90]
CtorSources == { <<>>, <<SourceReference(1, TestChunk(1))>>,
                 <<SourceReference(1, TestChunk(1)), SourceReference(2, TestChunk(2))>> }

InitCtor ==
    /\ AtRest
    /\ index = {}
    /\ HarnessAtRest
    /\ PipelineAtRest

Construct ==
    /\ \E status \in ResponseStatus, ans \in CtorAnswers, conf \in CtorConfidences,
          sources \in CtorSources, error_message \in CtorErrorMessages :
        /\ ctor_args' = AgentResponse(status, ans, conf, sources, error_message)
        /\ ctor_out' = IF AgentResponsePostInit(status, ans, sources, error_message) = None
                       THEN "accepted" ELSE "rejected"
    /\ UNCHANGED <<agentVars, cq, cres, pipelineVars>>

NextCtor == Construct

SpecCtor == InitCtor /\ [][NextCtor]_vars

----------------------------------------------------------------------------
(* Properties *)

Returned == pc = "done"

\* the status invariants of an AgentResponse
StatusInvariants(r) ==
    /\ r.status \in ResponseStatus
    /\ r.status = SUCCESS => ~ r.answer.null /\ Len(r.sources) >= 1
    /\ r.status = CONVERSATIONAL => ~ r.answer.null /\ r.sources = <<>>
    /\ r.status \in {INSUFFICIENT_CONTEXT, ERROR} => ~ r.error_message.null

\* C1: every AgentResponse returned by query() satisfies the status
\* invariants: SUCCESS has an answer and at least one source, CONVERSATIONAL
\* has an answer and no source, INSUFFICIENT_CONTEXT and ERROR have an
\* error_message.
C1_ReturnedResponseInvariants == Returned => StatusInvariants(response)

C1_Witness ==
    /\ Returned
    /\ response.status = SUCCESS
    /\ Len(response.sources) >= 2
    /\ Len(hits) >= 2

\* C2: constructing an agent.AgentResponse that breaks a status invariant
\* is rejected (SUCCESS with no source, CONVERSATIONAL with answer=None or
\* with a source, INSUFFICIENT_CONTEXT with error_message=None), while
\* SUCCESS with an answer and a source and CONVERSATIONAL with an answer and
\* no source are accepted.
C2_ConstructionRejectsInvalid ==
    ctor_out # "unset" =>
        /\ (ctor_args.status = SUCCESS /\ ctor_args.sources = <<>>)
              => ctor_out = "rejected"
        /\ (ctor_args.status = CONVERSATIONAL /\ ctor_args.answer.null)
              => ctor_out = "rejected"
        /\ (ctor_args.status = CONVERSATIONAL /\ ctor_args.sources # <<>>)
              => ctor_out = "rejected"
        /\ (ctor_args.status = INSUFFICIENT_CONTEXT /\ ctor_args.error_message.null)
              => ctor_out = "rejected"
        /\ (/\ ctor_args.status = SUCCESS
            /\ ~ ctor_args.answer.null
            /\ ctor_args.sources # <<>>) => ctor_out = "accepted"
        /\ (/\ ctor_args.status = CONVERSATIONAL
            /\ ~ ctor_args.answer.null
            /\ ctor_args.sources = <<>>) => ctor_out = "accepted"

\* C3: query() never lets an exception escape to its caller, whatever the
\* input string and whatever the services do.
C3_NoExceptionEscapes == pc # "raised" /\ raised = None

\* C4: for a content query, query() returns ERROR exactly when the
\* embedding, vector-store or generation call failed during that query, and
\* then error_message is the failure's message; no failed query is reported
\* SUCCESS.
C4_ErrorIffServiceFailed ==
    (Returned /\ response.status # CONVERSATIONAL) =>
        /\ response.status = ERROR <=> failed # {}
        /\ response.status = ERROR => response.error_message = failure
        /\ failed # {} => response.status # SUCCESS

\* C5: for a query classified low-intent, query() returns CONVERSATIONAL
\* with the canned answer and no sources, and issues no embedding, no
\* vector-store and no generation call, for any index state.
C5_LowIntentIsConversational ==
    (pc \in {"done", "raised"} /\ _is_greeting_or_low_intent(user_query)) =>
        /\ Returned
        /\ response.status = CONVERSATIONAL
        /\ response.answer = Some(_handle_greeting_query)
        /\ response.sources = <<>>
        /\ calls = NoCalls

\* generate_answer() has returned for a content query with no surviving chunk
NoChunkSurvived == pc \in {"assemble", "done"} /\ ~ answer.null /\ chunks = <<>>

\* C6: for a content query where no chunk survives retrieval and filtering,
\* query() returns INSUFFICIENT_CONTEXT with answer=None, no sources and the
\* fixed non-null error_message, and the Generation Service is not called.
C6_NoChunksInsufficientContext ==
    NoChunkSurvived =>
        /\ calls.chat = 0
        /\ Returned =>
              /\ response.status = INSUFFICIENT_CONTEXT
              /\ response.answer = None
              /\ response.sources = <<>>
              /\ ~ response.error_message.null
              /\ response.error_message = Some(NoChunksAnswer)

C6_Witness ==
    /\ Returned
    /\ NoChunkSurvived
    /\ hits # <<>>
    /\ index # {}
    /\ response.status = INSUFFICIENT_CONTEXT

\* the Generation Service returned a text for surviving chunks
Generated == Returned /\ chunks # <<>> /\ calls.chat = 1 /\ "chat" \notin failed

MatchesCannotFind(text) ==
    /\ \E i \in 0..(Len(text) - 22) : SubSeq(text, i + 1, i + 22) = <<"s","u","f","f","i","c","i","e","n","t"," ","i","n","f","o","r","m","a","t","i","o","n">>
    /\ \E i \in 0..(Len(text) - 11) : SubSeq(text, i + 1, i + 11) = <<"c","a","n","n","o","t"," ","f","i","n","d">>

\* C7: when chunks survive and the generated text matches the "cannot find
\* sufficient information" pattern, query() returns INSUFFICIENT_CONTEXT
\* with answer=None and the generated text as error_message; when the text
\* does not match, it returns SUCCESS with that text as the answer.
C7_GeneratedTextDecidesStatus ==
    Generated =>
        IF MatchesCannotFind(answer.text)
        THEN /\ response.status = INSUFFICIENT_CONTEXT
             /\ response.answer = None
             /\ response.error_message = answer
        ELSE /\ response.status = SUCCESS
             /\ response.answer = answer

C7_Witness ==
    /\ Generated
    /\ MatchesCannotFind(answer.text)
    /\ response.status = INSUFFICIENT_CONTEXT
    /\ response.sources # <<>>

\* the hits that pass the content-length filter, in ranking order
RECURSIVE Surviving(_)
Surviving(items) ==
    IF items = <<>> THEN <<>>
    ELSE (IF Len(Strip(Head(items).content)) >= MinContentLen
          THEN <<Head(items)>> ELSE <<>>) \o Surviving(Tail(items))

\* C8: a SUCCESS response carries exactly one SourceReference per surviving
\* chunk, in retrieval order, with citation_index 1..n and each excerpt the
\* first 100 characters of the chunk text followed by "...".
C8_SourcesFollowRanking ==
    (Returned /\ response.status = SUCCESS) =>
        LET surv == Surviving(hits)
            srcs == response.sources
        IN  /\ Len(srcs) = Len(surv)
            /\ \A i \in 1..Len(srcs) :
                /\ srcs[i].chunk_id = surv[i].id
                /\ srcs[i].citation_index = i
                /\ srcs[i].excerpt =
                      SubSeq(surv[i].content, 1, Min(Len(surv[i].content), ExcerptLen))
                      \o <<".", ".", ".">>

C8_Witness ==
    /\ Returned
    /\ response.status = SUCCESS
    /\ Len(response.sources) >= 2
    /\ \E i \in 1..Len(chunks) : Len(chunks[i].text) > ExcerptLen
    /\ \E i \in 1..Len(chunks) : Len(chunks[i].text) < ExcerptLen

\* C9: a content question that begins with a greeting word followed by
\* other words is not low-intent: "hello world programming" and "hi robot"
\* are False, "what is robotics" is False, "hi" and "who are you" are True.
C9_GreetingPrefixIsContent ==
    cres # "unset" =>
        /\ cq = <<"h","e","l","l","o"," ","w","o","r","l","d"," ","p","r","o","g","r","a","m","m","i","n","g">> => cres = "false"
        /\ cq = <<"h","i"," ","r","o","b","o","t">> => cres = "false"
        /\ cq = <<"w","h","a","t"," ","i","s"," ","r","o","b","o","t","i","c","s">> => cres = "false"
        /\ cq = <<"h","i">> => cres = "true"
        /\ cq = <<"w","h","o"," ","a","r","e"," ","y","o","u">> => cres = "true"

\* C10: every utterance of the greeting list ("hi", "hello", "how are you",
\* "what are you", "who are you", "bye", "thanks") is classified low-intent.
C10_GreetingListIsLowIntent ==
    (cres # "unset" /\ cq \in GreetingList) => cres = "true"

----------------------------------------------------------------------------
(* The classifier rule, stated on its own *)

C11_Phrases == {
    <<"h","e","l","l","o">>, <<"h","i">>, <<"h","e","y">>, <<"g","r","e","e","t","i","n","g","s">>, <<"g","o","o","d"," ","m","o","r","n","i","n","g">>,
    <<"h","o","w"," ","a","r","e"," ","y","o","u">>, <<"w","h","o"," ","a","r","e"," ","y","o","u">>, <<"w","h","a","t"," ","c","a","n"," ","y","o","u"," ","d","o">>,
    <<"t","h","a","n","k","s">>, <<"b","y","e">>, <<"h","e","l","p">> }

C11_Normalized == Strip(Lower(cq))

C11_Rule ==
    \/ cq = <<>>
    \/ C11_Normalized \in C11_Phrases
    \/ \E p \in C11_Phrases :
           /\ Len(C11_Normalized) > Len(p)
           /\ SubSeq(C11_Normalized, 1, Len(p) + 1) = p \o <<" ">>
    \/ /\ Len(C11_Normalized) < 3
       /\ \A i \in 1..Len(C11_Normalized) : ~ IsAlpha(C11_Normalized[i])

----------------------------------------------------------------------------
(* chunk_text (src/main.py) *)

ChunkSizeLimit == 10000

ChunkReturn(cs) == [kind |-> "returned", chunks |-> cs, error |-> ""]
ChunkRaise(msg) == [kind |-> "raised", chunks |-> <<>>, error |-> msg]

\* `not text or len(text.strip()) == 0`
IsBlank(text) == text = <<>> \/ Len(Strip(text)) = 0

\* the last window recognised only when it runs past the end of the text
last_window_Strict(text, start, chunk_size) == start + chunk_size > Len(text)

\* `if end >= len(text)`: the window starting at `start` is the last one
last_window(text, start, chunk_size) == start + chunk_size >= Len(text)

RECURSIVE chunk_windows_NoOverlap(_, _, _, _)
RECURSIVE chunk_windows(_, _, _, _)

\* the next window starting where the previous one ended
chunk_windows_NoOverlap(text, start, chunk_size, chunk_overlap) ==
    IF ~ (start < Len(text)) THEN <<>>
    ELSE IF last_window(text, start, chunk_size)
         THEN << SubSeq(text, start + 1, Len(text)) >>
         ELSE << SubSeq(text, start + 1, start + chunk_size) >>
              \o chunk_windows_NoOverlap(text, start + chunk_size,
                                         chunk_size, chunk_overlap)

\* the while loop: the chunks appended from position `start` on
chunk_windows(text, start, chunk_size, chunk_overlap) ==
    IF ~ (start < Len(text)) THEN <<>>
    ELSE IF last_window(text, start, chunk_size)
         THEN << SubSeq(text, start + 1, Len(text)) >>
         ELSE << SubSeq(text, start + 1, start + chunk_size) >>
              \o chunk_windows(text, start + chunk_size - chunk_overlap,
                               chunk_size, chunk_overlap)

\* the checks in the order the code makes them: the blank-text return comes
\* before the parameters are looked at
chunk_text(text, chunk_size, chunk_overlap) ==
    IF IsBlank(text) THEN ChunkReturn(<<>>)
    ELSE IF chunk_size <= 0 THEN ChunkRaise("chunk_size must be positive")
    ELSE IF chunk_overlap < 0 THEN ChunkRaise("chunk_overlap cannot be negative")
    ELSE IF chunk_overlap >= chunk_size
         THEN ChunkRaise("chunk_overlap must be less than chunk_size")
    ELSE IF chunk_size > ChunkSizeLimit THEN ChunkRaise("chunk_size seems too large")
    ELSE ChunkReturn(chunk_windows(text, 0, chunk_size, chunk_overlap))

ChunkAlphabet == {"a", "b", " "}
ChunkTexts == UNION { [1..n -> ChunkAlphabet] : n \in 0..MaxTextLen }
ChunkSizes == (-1..MaxChunkSize) \cup {ChunkSizeLimit, ChunkSizeLimit + 1}
ChunkOverlaps == -1..MaxChunkSize

InitChunk ==
    /\ AtRest
    /\ index = {}
    /\ HarnessAtRest
    /\ ck_text \in ChunkTexts
    /\ ck_size \in ChunkSizes
    /\ ck_overlap \in ChunkOverlaps
    /\ ck_out = [kind |-> "unset", chunks |-> <<>>, error |-> ""]
    /\ EmbedAtRest /\ RateAtRest /\ CrawlAtRest /\ IndexAtRest /\ ToolsAtRest

ChunkText ==
    /\ ck_out.kind = "unset"
    /\ ck_out' = chunk_text(ck_text, ck_size, ck_overlap)
    /\ UNCHANGED <<agentVars, classifyVars, ctorVars, ck_text, ck_size, ck_overlap,
                   embedVars, rateVars, crawlVars, indexVars, toolVars>>

NextChunk == ChunkText

SpecChunk == InitChunk /\ [][NextChunk]_vars

ChunkValid == ck_size > 0 /\ 0 <= ck_overlap /\ ck_overlap < ck_size

WhitespaceOnly(text) == Len(text) > 0 /\ \A i \in 1..Len(text) : text[i] \in Whitespace

DropFirst(s, n) == SubSeq(s, n + 1, Len(s))

RECURSIVE JoinWithoutOverlap(_, _, _)
JoinWithoutOverlap(cs, i, n) ==
    IF i > Len(cs) THEN <<>>
    ELSE (IF i = 1 THEN cs[i] ELSE DropFirst(cs[i], n)) \o JoinWithoutOverlap(cs, i + 1, n)

Reconstructs ==
    /\ ck_out.kind = "returned"
    /\ JoinWithoutOverlap(ck_out.chunks, 1, ck_overlap) = ck_text

\* ceil(a / b) for b > 0
Ceil(a, b) == (a + b - 1) \div b

C13_CountIsCeil ==
    (ck_out.kind # "unset" /\ ChunkValid) =>
        /\ ck_out.kind = "returned"
        /\ Len(ck_out.chunks) = Ceil(Len(ck_text) - ck_overlap, ck_size - ck_overlap)

\* C13, amended: for valid pairs with chunk_size <= 10000, a text with a
\* non-whitespace character yields ceil((len - overlap) / (size - overlap))
\* chunks when it is longer than chunk_overlap and one chunk otherwise; an
\* empty or whitespace-only text yields none.
C13_CountByLength ==
    (ck_out.kind # "unset" /\ ChunkValid /\ ck_size <= 10000) =>
        /\ ck_out.kind = "returned"
        /\ Len(ck_out.chunks) =
              IF ck_text = <<>> \/ WhitespaceOnly(ck_text) THEN 0
              ELSE IF Len(ck_text) > ck_overlap
                   THEN Ceil(Len(ck_text) - ck_overlap, ck_size - ck_overlap)
                   ELSE 1

C13_Witness ==
    /\ ck_out.kind = "returned"
    /\ Len(ck_text) <= ck_overlap
    /\ Len(ck_out.chunks) = 1

\* C14: chunk_text called with chunk_size <= 0, chunk_overlap < 0 or
\* chunk_overlap >= chunk_size fails with an error for every text, the
\* empty and the whitespace-only string included.
C14_InvalidParametersRaise ==
    (ck_out.kind # "unset" /\ ~ ChunkValid) => ck_out.kind = "raised"

----------------------------------------------------------------------------
(* embed (src/main.py) *)

max_batch_size == 96

\* retry_api_call(max_retries=3); embed() does not go through it
MaxAttempts == 3

Digit == <<"0","1","2","3","4","5","6","7","8","9">>

\* the k-th document text, distinct for distinct k
TextOf(k) == <<"t", Digit[((k \div 100) % 10) + 1], Digit[((k \div 10) % 10) + 1],
               Digit[(k % 10) + 1]>>

\* an empty or a whitespace-only text
BlankOf(k) == IF k % 2 = 0 THEN <<>> ELSE <<" ", " ">>

BlankPatterns == {"none", "first", "odd", "third", "all"}

IsBlankAt(pattern, k) ==
    CASE pattern = "none" -> FALSE
      [] pattern = "first" -> k = 1
      [] pattern = "odd" -> k % 2 = 1
      [] pattern = "third" -> k % 3 = 0
      [] pattern = "all" -> TRUE

EmbedInput(n, pattern) ==
    [k \in 1..n |-> IF IsBlankAt(pattern, k) THEN BlankOf(k) ELSE TextOf(k)]

EmbedInputs == { EmbedInput(n, p) : n \in 0..MaxTexts, p \in BlankPatterns }

\* the vector the service returns for a text
Vector(text) == [embedding_of |-> text]

\* valid_texts = [text for text in texts if text and len(text.strip()) > 0]
KeepText(text) == text # <<>> /\ Len(Strip(text)) > 0
valid_texts_of(texts) == SelectSeq(texts, KeepText)

\* a batch one element too wide
embed_batch_Wide(valid, i) ==
    SubSeq(valid, i + 1, Min(i + max_batch_size + 1, Len(valid)))

\* batch = valid_texts[i:i + max_batch_size]
embed_batch(valid, i) ==
    SubSeq(valid, i + 1, Min(i + max_batch_size, Len(valid)))

InitEmbed ==
    /\ AtRest
    /\ index = {}
    /\ HarnessAtRest
    /\ ChunkAtRest /\ RateAtRest /\ CrawlAtRest /\ IndexAtRest /\ ToolsAtRest
    /\ em_texts \in EmbedInputs
    /\ em_pc = "idle"
    /\ em_valid = <<>>
    /\ em_i = 0
    /\ em_all = <<>>
    /\ em_sent = <<>>
    /\ em_attempts = 0

EmbedUnchanged == UNCHANGED <<agentVars, classifyVars, ctorVars, chunkVars, rateVars,
                              crawlVars, indexVars, toolVars, em_texts>>

\* embed(texts) up to the first co.embed call
EmbedStart ==
    /\ em_pc = "idle"
    /\ em_valid' = valid_texts_of(em_texts)
    /\ em_pc' = IF em_texts = <<>> \/ em_valid' = <<>> THEN "returned" ELSE "batch"
    /\ UNCHANGED <<em_i, em_all, em_sent, em_attempts>>
    /\ EmbedUnchanged

\* one iteration of the batch loop, co.embed answering
EmbedBatch ==
    /\ em_pc = "batch"
    /\ LET batch == embed_batch(em_valid, em_i)
       IN  /\ em_sent' = Append(em_sent, batch)
           /\ em_all' = em_all \o [k \in 1..Len(batch) |-> Vector(batch[k])]
    /\ em_attempts' = 1
    /\ em_i' = em_i + max_batch_size
    /\ em_pc' = IF em_i' < Len(em_valid) THEN "batch" ELSE "returned"
    /\ UNCHANGED em_valid
    /\ EmbedUnchanged

\* one iteration of the batch loop, co.embed failing (timeout, 5xx or 429):
\* `except Exception as e: ... raise`
EmbedBatchFails ==
    /\ em_pc = "batch"
    /\ em_sent' = Append(em_sent, embed_batch(em_valid, em_i))
    /\ em_attempts' = 1
    /\ em_pc' = "raised"
    /\ UNCHANGED <<em_valid, em_i, em_all>>
    /\ EmbedUnchanged

NextEmbed == EmbedStart \/ EmbedBatch \/ EmbedBatchFails

SpecEmbed == InitEmbed /\ [][NextEmbed]_vars

NonBlankText(text) == \E i \in 1..Len(text) : text[i] \notin Whitespace
NonBlankInputs == SelectSeq(em_texts, NonBlankText)

RECURSIVE Flatten(_)
Flatten(ss) == IF ss = <<>> THEN <<>> ELSE Head(ss) \o Flatten(Tail(ss))

\* C15: embed(texts) returns one vector per non-blank input text in the
\* original order; blank texts are filtered before any service call; the
\* remaining texts are sent in groups of at most 96, one call per group,
\* so the number of calls is ceil(n_nonblank / 96).
C15_OneVectorPerNonBlankText ==
    /\ \A b \in 1..Len(em_sent) :
          /\ Len(em_sent[b]) \in 1..96
          /\ \A k \in 1..Len(em_sent[b]) : NonBlankText(em_sent[b][k])
    /\ em_pc = "returned" =>
          /\ em_all = [k \in 1..Len(NonBlankInputs) |-> Vector(NonBlankInputs[k])]
          /\ Flatten(em_sent) = NonBlankInputs
          /\ Len(em_sent) = Ceil(Len(NonBlankInputs), 96)

C15_Witness ==
    /\ em_pc = "returned"
    /\ Len(em_sent) = 2
    /\ Len(em_all) < Len(em_texts)

\* C16: a transient failure of the embedding call inside embed() is retried
\* with exponential backoff, up to 3 attempts, before embed() raises.
C16_FailureRetriedThreeTimes ==
    em_pc = "raised" => em_attempts = MaxAttempts

----------------------------------------------------------------------------
(* cohere_rate_limit (src/main.py): the wrapper around a rate-limited call. *)
(* Time is in whole seconds.  The wrapper takes no lock, so each read and   *)
(* each write of _cohere_request_times is a step of its own.                *)

Window == 60

\* the instants at which the clock is observed: around each minute boundary
Instants == { t \in 0..MaxClock : t % Window \in {0, 1, Window - 1} }

\* [req_time for req_time in _cohere_request_times if now - req_time < 60]
Prune(times, now) == SelectSeq(times, LAMBDA t : now - t < Window)

\* the ceiling tested one request too late
rate_reached_Late(times, max_requests_per_minute) ==
    Len(times) > max_requests_per_minute

\* len(_cohere_request_times) >= max_requests_per_minute
rate_reached(times, max_requests_per_minute) ==
    Len(times) >= max_requests_per_minute

\* sleep_time = 60 - (now - _cohere_request_times[0]) if _cohere_request_times else 60
sleep_time(times, now) ==
    IF times # <<>> THEN Window - (now - times[1]) ELSE Window

\* wrapper calls entered so far
Started == Len(rl_issued) + Cardinality({ c \in Callers : rl_pc[c] \notin {"idle", "off"} })

RateInit(active) ==
    /\ AtRest
    /\ index = {}
    /\ HarnessAtRest
    /\ ChunkAtRest /\ EmbedAtRest /\ CrawlAtRest /\ IndexAtRest /\ ToolsAtRest
    /\ rl_max \in 1..MaxRate
    /\ rl_clock = 0
    /\ rl_times = <<>>
    /\ rl_pc = [c \in Callers |-> IF c \in active THEN "idle" ELSE "off"]
    /\ rl_now = [c \in Callers |-> 0]
    /\ rl_read = [c \in Callers |-> <<>>]
    /\ rl_wake = [c \in Callers |-> NoSleep]
    /\ rl_issued = <<>>

\* one thread uses the wrapped function
InitRate == RateInit({1})

\* two threads use it
InitRateConcurrent == RateInit(Callers)

RateUnchanged == UNCHANGED <<agentVars, classifyVars, ctorVars, chunkVars, embedVars,
                             crawlVars, indexVars, toolVars, rl_max>>

\* time passes: to a later instant, or to the end of a caller's sleep
Tick ==
    /\ \E t \in Instants \cup { rl_wake[c].until : c \in Callers } :
          /\ t > rl_clock
          /\ t <= MaxClock
          /\ rl_clock' = t
    /\ UNCHANGED <<rl_times, rl_pc, rl_now, rl_read, rl_wake, rl_issued>>
    /\ RateUnchanged

\* the calls followed: fewer when two threads interleave
CallBudget == IF \E c \in Callers : rl_pc[c] = "off" THEN MaxCalls ELSE MaxConcurrentCalls

\* now = time.time()
WrapperEnter(c) ==
    /\ rl_pc[c] = "idle"
    /\ Started < CallBudget
    /\ rl_now' = [rl_now EXCEPT ![c] = rl_clock]
    /\ rl_wake' = [rl_wake EXCEPT ![c] = NoSleep]
    /\ rl_pc' = [rl_pc EXCEPT ![c] = "prune"]
    /\ UNCHANGED <<rl_clock, rl_times, rl_read, rl_issued>>
    /\ RateUnchanged

\* the list comprehension reads the global list
WrapperPruneRead(c) ==
    /\ rl_pc[c] = "prune"
    /\ rl_read' = [rl_read EXCEPT ![c] = Prune(rl_times, rl_now[c])]
    /\ rl_pc' = [rl_pc EXCEPT ![c] = "store"]
    /\ UNCHANGED <<rl_clock, rl_times, rl_now, rl_wake, rl_issued>>
    /\ RateUnchanged

\* and its result is bound to the global name
WrapperPruneStore(c) ==
    /\ rl_pc[c] = "store"
    /\ rl_times' = rl_read[c]
    /\ rl_pc' = [rl_pc EXCEPT ![c] = "check"]
    /\ UNCHANGED <<rl_clock, rl_now, rl_read, rl_wake, rl_issued>>
    /\ RateUnchanged

\* if len(...) >= max_requests_per_minute: ... time.sleep(sleep_time)
WrapperCheck(c) ==
    /\ rl_pc[c] = "check"
    /\ IF rate_reached(rl_times, rl_max) /\ sleep_time(rl_times, rl_now[c]) > 0
       THEN /\ rl_wake' = [rl_wake EXCEPT ![c] =
                    [until |-> rl_clock + sleep_time(rl_times, rl_now[c]),
                     oldest |-> IF rl_times # <<>> THEN rl_times[1] ELSE -1]]
            /\ rl_pc' = [rl_pc EXCEPT ![c] = "sleep"]
       ELSE /\ rl_pc' = [rl_pc EXCEPT ![c] = "append"]
            /\ UNCHANGED rl_wake
    /\ UNCHANGED <<rl_clock, rl_times, rl_now, rl_read, rl_issued>>
    /\ RateUnchanged

\* time.sleep returns once sleep_time has passed
WrapperWake(c) ==
    /\ rl_pc[c] = "sleep"
    /\ rl_clock >= rl_wake[c].until
    /\ rl_pc' = [rl_pc EXCEPT ![c] = "append"]
    /\ UNCHANGED <<rl_clock, rl_times, rl_now, rl_read, rl_wake, rl_issued>>
    /\ RateUnchanged

\* _cohere_request_times.append(time.time()); return func(*args, **kwargs)
WrapperAppend(c) ==
    /\ rl_pc[c] = "append"
    /\ rl_times' = Append(rl_times, rl_clock)
    /\ rl_issued' = Append(rl_issued,
                           [at |-> rl_clock, by |-> c, oldest |-> rl_wake[c].oldest])
    /\ rl_pc' = [rl_pc EXCEPT ![c] = "idle"]
    /\ UNCHANGED <<rl_clock, rl_now, rl_read, rl_wake>>
    /\ RateUnchanged

NextRate ==
    \/ Tick
    \/ \E c \in Callers : WrapperEnter(c)
    \/ \E c \in Callers : WrapperPruneRead(c)
    \/ \E c \in Callers : WrapperPruneStore(c)
    \/ \E c \in Callers : WrapperCheck(c)
    \/ \E c \in Callers : WrapperWake(c)
    \/ \E c \in Callers : WrapperAppend(c)

SpecRate == InitRate /\ [][NextRate]_vars

SpecRateConcurrent == InitRateConcurrent /\ [][NextRate]_vars

\* requests let through during the 60 seconds starting at s
IssuedIn(s) == { i \in DOMAIN rl_issued : s <= rl_issued[i].at /\ rl_issued[i].at < s + 60 }

WindowCeiling == \A s \in 0..MaxClock : Cardinality(IssuedIn(s)) <= rl_max

\* a caller that found the window full was let through only once the oldest
\* recorded request was 60 seconds old
BlockedUntilOldestAgedOut ==
    \A i \in DOMAIN rl_issued :
        rl_issued[i].oldest >= 0 => rl_issued[i].at >= rl_issued[i].oldest + 60

\* C17: with a single caller the rate limiter lets through no more than
\* max_requests_per_minute requests in any sliding 60-second window; a
\* caller that would exceed the ceiling blocks until the oldest recorded
\* request has aged out of the window.
C17_SingleCallerCeiling == WindowCeiling /\ BlockedUntilOldestAgedOut

C17_Witness ==
    \E i \in DOMAIN rl_issued : rl_issued[i].oldest >= 0 /\ rl_max = 2

Occurrences(seq, t) == Cardinality({ i \in DOMAIN seq : seq[i] = t })

\* every request time younger than 60 seconds is still recorded
NoRequestTimeLost ==
    \A i \in DOMAIN rl_issued :
        rl_clock - rl_issued[i].at < 60 =>
            Occurrences(rl_times, rl_issued[i].at)
              >= Cardinality({ j \in DOMAIN rl_issued : rl_issued[j].at = rl_issued[i].at })

\* C18: with two callers inside the rate limiter at once, the ceiling still
\* holds over all of them and no recorded request time is lost.
C18_ConcurrentCeiling == WindowCeiling /\ NoRequestTimeLost

----------------------------------------------------------------------------
(* get_all_urls (src/main.py): breadth-first discovery of a site's URLs *)

\* position of the first occurrence of character c in s, or 0
RECURSIVE IndexOf(_, _, _)
IndexOf(s, c, i) ==
    IF i > Len(s) THEN 0 ELSE IF s[i] = c THEN i ELSE IndexOf(s, c, i + 1)

\* urlparse(url).scheme
Scheme(url) ==
    LET colon == IndexOf(url, ":", 1)
    IN  IF colon > 1 /\ \A i \in 1..(colon - 1) : IsAlpha(url[i])
        THEN Lower(SubSeq(url, 1, colon - 1))
        ELSE <<>>

\* what follows "scheme:"
AfterScheme(url) ==
    IF Scheme(url) = <<>> THEN url ELSE SubSeq(url, Len(Scheme(url)) + 2, Len(url))

\* end of the authority part: the first "/", "?" or "#", else the end
RECURSIVE AuthorityEnd(_, _)
AuthorityEnd(s, i) ==
    IF i > Len(s) THEN i
    ELSE IF s[i] \in {"/", "?", "#"} THEN i ELSE AuthorityEnd(s, i + 1)

\* urlparse(url).netloc
Netloc(url) ==
    LET rest == AfterScheme(url)
    IN  IF StartsWith(rest, <<"/","/">>)
        THEN SubSeq(rest, 3, AuthorityEnd(rest, 3) - 1)
        ELSE <<>>

\* position of the last "/" of s, or 0
RECURSIVE LastSlash(_, _)
LastSlash(s, i) ==
    IF i = 0 THEN 0 ELSE IF s[i] = "/" THEN i ELSE LastSlash(s, i - 1)

\* urljoin(base, href) for an absolute, a root-relative and a relative href
urljoin(base, href) ==
    IF Scheme(href) # <<>> THEN href
    ELSE IF StartsWith(href, <<"/">>)
         THEN Scheme(base) \o <<":","/","/">> \o Netloc(base) \o href
         ELSE SubSeq(base, 1, LastSlash(base, Len(base))) \o href

\* all([result.scheme, result.netloc])
is_valid_url(url) == Scheme(url) # <<>> /\ Netloc(url) # <<>>

excluded_patterns == <<
    <<"/","n","a","v","/">>, <<"/","n","a","v","b","a","r","/">>, <<"/","m","e","n","u","/">>, <<"/","h","e","a","d","e","r","/">>, <<"/","f","o","o","t","e","r","/">>,
    <<".","p","d","f">>, <<".","j","p","g">>, <<".","j","p","e","g">>, <<".","p","n","g">>, <<".","g","i","f">>, <<".","c","s","s">>, <<".","j","s">>,
    <<".","x","m","l">>, <<".","j","s","o","n">>,
    <<"/","a","p","i","/">>, <<"/","a","d","m","i","n","/">>, <<"/","l","o","g","i","n","/">>, <<"/","l","o","g","o","u","t","/">>, <<"/","r","e","g","i","s","t","e","r","/">>,
    <<"/","s","i","g","n","u","p","/">>, <<"/","s","e","a","r","c","h","/">>, <<"/","t","a","g","/">>, <<"/","c","a","t","e","g","o","r","y","/">>, <<"/","f","e","e","d">>,
    <<"s","h","a","r","e","=">>, <<"p","r","i","n","t","=">>, <<"s","i","t","e","m","a","p",".","x","m","l">>, <<"r","o","b","o","t","s",".","t","x","t">> >>

\* a filter that lets every URL through
is_content_page_Open(url) == TRUE

\* False when the lowercased URL contains an excluded pattern, else True
is_content_page(url) ==
    LET url_lower == Lower(url)
    IN  ~ \E k \in 1..Len(excluded_patterns) : Contains(url_lower, excluded_patterns[k])

\* the site that is crawled
RootPage == <<"h","t","t","p","s",":","/","/","s",".","i","o","/">>
PageA == <<"h","t","t","p","s",":","/","/","s",".","i","o","/","a">>
PageB == <<"h","t","t","p","s",":","/","/","s",".","i","o","/","b">>
PageC == <<"h","t","t","p","s",":","/","/","s",".","i","o","/","c">>
ApiPage == <<"h","t","t","p","s",":","/","/","s",".","i","o","/","a","p","i","/","x">>
Asset == <<"h","t","t","p","s",":","/","/","s",".","i","o","/","B",".","P","D","F">>
Foreign == <<"h","t","t","p","s",":","/","/","x",".","i","o","/","a">>

SitePages == {RootPage, PageA, PageB, PageC, ApiPage}

\* the hrefs a page may carry, in document order
LinkLists == {
    <<>>,
    <<PageA, Foreign, ApiPage>>,
    <<<<"/","b">>, RootPage, Asset>>,
    <<PageC, PageA>> }

Sites ==
    { site \in [SitePages -> LinkLists] :
        /\ site[PageC] \in {<<>>, <<PageC, PageA>>}
        /\ site[ApiPage] \in {<<>>, <<PageA, Foreign, ApiPage>>} }

Roots == {RootPage, ApiPage}

\* what a fetch can come to other than a 200 response: no response after
\* the retries (0), or a status
FailedFetches == {0, 429, 403, 404}

InitCrawl ==
    /\ AtRest
    /\ index = {}
    /\ HarnessAtRest
    /\ ChunkAtRest /\ EmbedAtRest /\ RateAtRest /\ IndexAtRest /\ ToolsAtRest
    /\ cr_links \in Sites
    /\ cr_root \in Roots
    /\ cr_max_depth \in 0..MaxDepth
    /\ cr_pc = "idle"
    /\ cr_queue = <<>>
    /\ cr_visited = {}
    /\ cr_discovered = {}
    /\ cr_fetched = <<>>

CrawlUnchanged == UNCHANGED <<agentVars, classifyVars, ctorVars, chunkVars, embedVars,
                              rateVars, indexVars, toolVars, cr_links, cr_root, cr_max_depth>>

Fetched(url, depth, status) == [url |-> url, depth |-> depth, status |-> status]

\* the link loop over links[i..n] of the page at current_url, from the
\* discovery set and the queue in `st`
RECURSIVE process_links_EnqueueAll(_, _, _, _, _, _)
RECURSIVE process_links(_, _, _, _, _, _)

\* every discovered link enqueued, whatever the depth
process_links_EnqueueAll(links, i, n, current_url, current_depth, st) ==
    IF i > n THEN st
    ELSE LET absolute_url == urljoin(current_url, links[i])
             found == /\ Netloc(cr_root) = Netloc(absolute_url)
                      /\ absolute_url \notin st.discovered
                      /\ is_valid_url(absolute_url)
                      /\ is_content_page(absolute_url)
             next == IF ~ found THEN st
                     ELSE [discovered |-> st.discovered \cup {absolute_url},
                           queue |-> Append(st.queue, <<absolute_url, current_depth + 1>>)]
         IN  process_links_EnqueueAll(links, i + 1, n, current_url, current_depth, next)


process_links(links, i, n, current_url, current_depth, st) ==
    IF i > n THEN st
    ELSE LET absolute_url == urljoin(current_url, links[i])
             found == /\ Netloc(cr_root) = Netloc(absolute_url)
                      /\ absolute_url \notin st.discovered
                      /\ is_valid_url(absolute_url)
                      /\ is_content_page(absolute_url)
             next == IF ~ found THEN st
                     ELSE [discovered |-> st.discovered \cup {absolute_url},
                           queue |-> IF current_depth < cr_max_depth
                                     THEN Append(st.queue, <<absolute_url, current_depth + 1>>)
                                     ELSE st.queue]
         IN  process_links(links, i + 1, n, current_url, current_depth, next)

\* validate_and_access_site(root_url) fails: bad format, or the root is not
\* served with status 200
CrawlRootInvalid ==
    /\ cr_pc = "idle"
    /\ \E status \in FailedFetches :
          cr_fetched' = IF is_valid_url(cr_root)
                        THEN Append(cr_fetched, Fetched(cr_root, -1, status))
                        ELSE cr_fetched
    /\ cr_pc' = "returned"
    /\ UNCHANGED <<cr_queue, cr_visited, cr_discovered>>
    /\ CrawlUnchanged

\* the root validates; queue = [(root_url, 0)]
CrawlStart ==
    /\ cr_pc = "idle"
    /\ is_valid_url(cr_root)
    /\ cr_fetched' = Append(cr_fetched, Fetched(cr_root, -1, 200))
    /\ cr_queue' = << <<cr_root, 0>> >>
    /\ cr_pc' = "crawl"
    /\ UNCHANGED <<cr_visited, cr_discovered>>
    /\ CrawlUnchanged

\* the head of the queue fetched whether or not it was visited before
ToFetch_Revisit ==
    /\ cr_pc = "crawl"
    /\ cr_queue # <<>>
    /\ ~ (cr_queue[1][2] > cr_max_depth)

\* the head of the queue is to be fetched
ToFetch ==
    /\ cr_pc = "crawl"
    /\ cr_queue # <<>>
    /\ ~ (cr_queue[1][1] \in cr_visited \/ cr_queue[1][2] > cr_max_depth)

\* `if current_url in visited_urls or current_depth > max_depth: continue`
CrawlSkip ==
    /\ cr_pc = "crawl"
    /\ cr_queue # <<>>
    /\ cr_queue[1][1] \in cr_visited \/ cr_queue[1][2] > cr_max_depth
    /\ cr_queue' = Tail(cr_queue)
    /\ UNCHANGED <<cr_pc, cr_visited, cr_discovered, cr_fetched>>
    /\ CrawlUnchanged

\* a failed fetch that ends the crawl
CrawlFetchFails_Abort ==
    /\ ToFetch
    /\ \E status \in FailedFetches :
          cr_fetched' = Append(cr_fetched, Fetched(cr_queue[1][1], cr_queue[1][2], status))
    /\ cr_visited' = cr_visited \cup {cr_queue[1][1]}
    /\ cr_pc' = "returned"
    /\ UNCHANGED <<cr_queue, cr_discovered>>
    /\ CrawlUnchanged

\* no response, 429, 403 or another non-200 status: continue
CrawlFetchFails ==
    /\ ToFetch
    /\ \E status \in FailedFetches :
          cr_fetched' = Append(cr_fetched, Fetched(cr_queue[1][1], cr_queue[1][2], status))
    /\ cr_visited' = cr_visited \cup {cr_queue[1][1]}
    /\ cr_queue' = Tail(cr_queue)
    /\ UNCHANGED <<cr_pc, cr_discovered>>
    /\ CrawlUnchanged

\* status 200: every link of the page goes through the link loop
CrawlFetchOk ==
    /\ ToFetch
    /\ LET current_url == cr_queue[1][1]
           current_depth == cr_queue[1][2]
           links == cr_links[current_url]
           st == process_links(links, 1, Len(links), current_url, current_depth,
                               [discovered |-> cr_discovered, queue |-> Tail(cr_queue)])
       IN  /\ cr_fetched' = Append(cr_fetched, Fetched(current_url, current_depth, 200))
           /\ cr_visited' = cr_visited \cup {current_url}
           /\ cr_discovered' = st.discovered
           /\ cr_queue' = st.queue
    /\ UNCHANGED cr_pc
    /\ CrawlUnchanged

\* status 200, but parsing the page or one of its hrefs raises after the
\* first k links: `except Exception: continue`
CrawlPageRaises ==
    /\ ToFetch
    /\ LET current_url == cr_queue[1][1]
           current_depth == cr_queue[1][2]
           links == cr_links[current_url]
       IN  \E k \in 0..Len(links) :
             /\ k < Len(links) \/ k = 0
             /\ LET st == process_links(links, 1, k, current_url, current_depth,
                                         [discovered |-> cr_discovered,
                                          queue |-> Tail(cr_queue)])
                IN  /\ cr_discovered' = st.discovered
                    /\ cr_queue' = st.queue
             /\ cr_fetched' = Append(cr_fetched, Fetched(current_url, current_depth, 200))
             /\ cr_visited' = cr_visited \cup {current_url}
    /\ UNCHANGED cr_pc
    /\ CrawlUnchanged

\* the queue is empty: return list(discovered_urls)
CrawlReturn ==
    /\ cr_pc = "crawl"
    /\ cr_queue = <<>>
    /\ cr_pc' = "returned"
    /\ UNCHANGED <<cr_queue, cr_visited, cr_discovered, cr_fetched>>
    /\ CrawlUnchanged

NextCrawl ==
    \/ CrawlRootInvalid
    \/ CrawlStart
    \/ CrawlSkip
    \/ CrawlFetchFails
    \/ CrawlFetchOk
    \/ CrawlPageRaises
    \/ CrawlReturn

SpecCrawl == InitCrawl /\ [][NextCrawl]_vars

\* the URLs the hrefs of page u point to
LinkTargets(u) ==
    IF u \in DOMAIN cr_links
    THEN { urljoin(u, cr_links[u][i]) : i \in 1..Len(cr_links[u]) }
    ELSE {}

\* the URLs reachable from the root by following at most n links
RECURSIVE WithinHops(_)
WithinHops(n) ==
    IF n <= 0 THEN {cr_root}
    ELSE WithinHops(n - 1) \cup UNION { LinkTargets(u) : u \in WithinHops(n - 1) }

\* C19: every URL returned by get_all_urls is reachable from root_url by
\* following at most max_depth links; no URL whose shortest hop distance
\* from the root exceeds max_depth is returned.
C19_ReturnedWithinMaxDepth ==
    cr_pc = "returned" => cr_discovered \subseteq WithinHops(cr_max_depth)

SameDomainContent(url) ==
    /\ Netloc(url) = Netloc(cr_root)
    /\ LET lowered == Lower(url)
       IN  \A k \in 1..Len(excluded_patterns) : ~ Contains(lowered, excluded_patterns[k])

\* C20 as stated: every URL returned by get_all_urls has the root's netloc
\* and passes the is_content_page filter, and no filtered-out or
\* foreign-domain URL is ever enqueued.
C20_OnlySameDomainContent ==
    /\ \A u \in cr_discovered : SameDomainContent(u)
    /\ \A i \in DOMAIN cr_queue : SameDomainContent(cr_queue[i][1])

\* C20, amended: every discovered (hence returned) URL has the root's netloc
\* and passes the filter, and so does every queue entry other than the seed
\* (root_url, 0), which is enqueued unfiltered.
C20_OnlySameDomainContentLinks ==
    /\ \A u \in cr_discovered : SameDomainContent(u)
    /\ \A i \in DOMAIN cr_queue :
          SameDomainContent(cr_queue[i][1]) \/ cr_queue[i] = <<cr_root, 0>>

C20_Witness ==
    /\ cr_pc = "returned"
    /\ PageA \in cr_discovered
    /\ \E i \in DOMAIN cr_fetched :
          /\ cr_fetched[i].status = 200
          /\ cr_fetched[i].depth >= 0
          /\ {Foreign, ApiPage} \subseteq LinkTargets(cr_fetched[i].url)

----------------------------------------------------------------------------
(* Order, repetition and failure handling of the crawl *)

\* requests made by the crawl loop (the validation request has depth -1)
LoopFetches == { i \in DOMAIN cr_fetched : cr_fetched[i].depth >= 0 }

NoUrlRequestedTwice ==
    \A i, j \in DOMAIN cr_fetched :
        cr_fetched[i].url = cr_fetched[j].url => i = j

NoUrlFetchedTwiceByLoop ==
    \A i, j \in LoopFetches :
        cr_fetched[i].url = cr_fetched[j].url => i = j

\* every URL some page of the site links to
AllTargets == UNION { LinkTargets(u) : u \in DOMAIN cr_links }

\* what is left to do: queue entries, and links that can still be enqueued
Remaining(queue, discovered) == Len(queue) + Cardinality(AllTargets \ discovered)

\* every iteration of the while loop leaves strictly less to do, so the loop
\* ends after finitely many iterations
LoopMakesProgress ==
    (cr_pc = "crawl" /\ cr_pc' = "crawl") =>
        Remaining(cr_queue', cr_discovered') < Remaining(cr_queue, cr_discovered)

C22_BreadthFirstOrder ==
    /\ \A i, j \in DOMAIN cr_fetched :
          i < j => cr_fetched[i].depth <= cr_fetched[j].depth
    /\ \A i, j \in DOMAIN cr_queue : i < j => cr_queue[i][2] <= cr_queue[j][2]
    /\ \A i \in DOMAIN cr_queue :
          /\ cr_queue[i][2] <= cr_max_depth
          /\ cr_fetched[Len(cr_fetched)].depth <= cr_queue[i][2]
          /\ cr_queue[i][2] <= cr_fetched[Len(cr_fetched)].depth + 1
                \/ cr_queue[i] = <<cr_root, 0>>

C22_Witness ==
    /\ cr_pc = "returned"
    /\ cr_max_depth = 2
    /\ \E i, j \in LoopFetches : cr_fetched[i].depth = 1 /\ cr_fetched[j].depth = 2

FetchedOk == { cr_fetched[i].url : i \in { k \in LoopFetches : cr_fetched[k].status = 200 } }

\* C23: a fetch that yields no response, 429, 403 or another non-200 status
\* skips that URL only: the crawl goes on until the queue is empty, the
\* skipped page contributes no link, and the URL is not fetched again.
C23_FailedFetchSkipsOnlyThatUrl ==
    /\ cr_pc = "returned" => cr_queue = <<>>
    /\ cr_discovered \subseteq UNION { LinkTargets(u) : u \in FetchedOk }
    /\ \A i \in LoopFetches :
          cr_fetched[i].status # 200 =>
              /\ cr_fetched[i].url \in cr_visited
              /\ \A j \in LoopFetches : cr_fetched[j].url = cr_fetched[i].url => j = i

C23_Witness ==
    /\ cr_pc = "returned"
    /\ \E i, j \in LoopFetches :
          /\ i < j
          /\ cr_fetched[i].status = 429
          /\ cr_fetched[j].status = 200

\* ---------------------------------------------------------------------------
\* create_collection (main.py): the collection of the vector store

MaxCreateCalls == 2

\* distance_map
distance_map == [Cosine |-> "COSINE", Euclidean |-> "EUCLID", Dot |-> "DOT"]

\* largest vector size the function accepts
MaxVectorSize == 65536

CollectionNames == {<<"r","a","g","_","e","m","b","e","d","d","i","n","g">>, <<"b","o","o","k">>, <<" ">>}
VectorSizes == {0, 768, 1024, MaxVectorSize + 1}
DistanceNames == {"Cosine", "Manhattan", " "}
CreateArgs == [collection_name : CollectionNames, vector_size : VectorSizes,
               distance : DistanceNames]

VectorParams(size, distance) == [size |-> size, distance |-> distance]

\* the store before the program runs: empty, or holding a collection made earlier
InitialStores ==
    {<<>>} \cup
    { [n \in {<<"r","a","g","_","e","m","b","e","d","d","i","n","g">>} |-> VectorParams(size, d)] :
          size \in {768, 1024}, d \in {"COSINE", "DOT"} }

InitCollection ==
    /\ AtRest
    /\ index = {}
    /\ HarnessAtRest
    /\ ChunkAtRest /\ EmbedAtRest /\ RateAtRest /\ CrawlAtRest
    /\ SearchAtRest /\ IngestAtRest /\ ToolsAtRest
    /\ qd_store \in InitialStores
    /\ qd_creates = <<>>
    /\ qd_history = <<>>

StoreUnchanged == UNCHANGED <<agentVars, classifyVars, ctorVars, chunkVars, embedVars,
                              rateVars, crawlVars, searchVars, ingestVars, toolVars>>

\* the input validation: the ValueError branches
create_args_invalid(a) ==
    \/ IsBlank(a.collection_name)
    \/ a.vector_size <= 0
    \/ a.vector_size > MaxVectorSize
    \/ IsBlank(<<a.distance>>)

\* `if distance not in distance_map: distance = "Cosine"`
effective_distance(distance) ==
    IF distance \in DOMAIN distance_map THEN distance ELSE "Cosine"

\* the existence test that is never true
collection_exists_Never(name) == FALSE

\* `collection_name in existing_collection_names`
collection_exists(name) == name \in DOMAIN qd_store

Called(a, result, listing) == [args |-> a, result |-> result, listing |-> listing]

CanCall == Len(qd_history) < MaxCreateCalls

\* a parameter fails validation: ValueError, the store is not contacted
CreateCollectionRaises(a) ==
    /\ CanCall
    /\ create_args_invalid(a)
    /\ qd_history' = Append(qd_history, Called(a, "ValueError", "unasked"))
    /\ UNCHANGED <<qd_store, qd_creates>>
    /\ StoreUnchanged

\* get_collections() raises: caught, False
CreateCollectionUnreachable(a) ==
    /\ CanCall
    /\ ~ create_args_invalid(a)
    /\ qd_history' = Append(qd_history, Called(a, "False", "failed"))
    /\ UNCHANGED <<qd_store, qd_creates>>
    /\ StoreUnchanged

\* the collection is listed: True, nothing is created
CreateCollectionExists(a) ==
    /\ CanCall
    /\ ~ create_args_invalid(a)
    /\ collection_exists(a.collection_name)
    /\ qd_history' = Append(qd_history, Called(a, "True", "listed"))
    /\ UNCHANGED <<qd_store, qd_creates>>
    /\ StoreUnchanged

CreateRequest(a, ok) ==
    [name |-> a.collection_name,
     config |-> VectorParams(a.vector_size, distance_map[effective_distance(a.distance)]),
     ok |-> ok]

\* the collection is not listed and the store creates it: True
CreateCollectionCreates(a) ==
    /\ CanCall
    /\ ~ create_args_invalid(a)
    /\ ~ collection_exists(a.collection_name)
    /\ qd_creates' = Append(qd_creates, CreateRequest(a, TRUE))
    /\ qd_store' = [n \in DOMAIN qd_store \cup {a.collection_name} |->
                       IF n = a.collection_name
                       THEN CreateRequest(a, TRUE).config
                       ELSE qd_store[n]]
    /\ qd_history' = Append(qd_history, Called(a, "True", "absent"))
    /\ StoreUnchanged

\* the collection is not listed and the store's create call raises: False
CreateCollectionCreateFails(a) ==
    /\ CanCall
    /\ ~ create_args_invalid(a)
    /\ ~ collection_exists(a.collection_name)
    /\ qd_creates' = Append(qd_creates, CreateRequest(a, FALSE))
    /\ qd_history' = Append(qd_history, Called(a, "False", "absent"))
    /\ UNCHANGED qd_store
    /\ StoreUnchanged

NextCollection ==
    \E a \in CreateArgs :
        \/ CreateCollectionRaises(a)
        \/ CreateCollectionUnreachable(a)
        \/ CreateCollectionExists(a)
        \/ CreateCollectionCreates(a)
        \/ CreateCollectionCreateFails(a)

SpecCollection == InitCollection /\ [][NextCollection]_vars

\* the collections that existed when call number k was made
ExistedAt(k) ==
    DOMAIN qd_store \ { qd_history[j].args.collection_name :
                          j \in { i \in k..Len(qd_history) :
                                    /\ qd_history[i].result = "True"
                                    /\ qd_history[i].listing = "absent" } }

CreateRequestsFor(name) == { i \in DOMAIN qd_creates : qd_creates[i].name = name }

\* C24 as stated: a call for an existing collection returns True, and over
\* any sequence of calls the store receives at most one create request per
\* collection name.
C24_CreateInvokedAtMostOnce ==
    /\ \A k \in DOMAIN qd_history :
          (/\ qd_history[k].result # "ValueError"
           /\ qd_history[k].args.collection_name \in ExistedAt(k))
              => qd_history[k].result = "True"
    /\ \A name \in CollectionNames : Cardinality(CreateRequestsFor(name)) <= 1

\* a step keeps every existing collection and its configuration, and sends a
\* create request only for a collection that does not exist
StoreKeepsConfiguration ==
    /\ \A n \in DOMAIN qd_store : n \in DOMAIN qd_store' /\ qd_store'[n] = qd_store[n]
    /\ qd_creates' # qd_creates =>
          /\ Len(qd_creates') = Len(qd_creates) + 1
          /\ qd_creates'[Len(qd_creates')].name \notin DOMAIN qd_store

\* C24, amended: a call that finds the collection listed by the store sends
\* no create request and returns True; a create request is sent only while
\* the collection does not exist, at most one create request per name
\* succeeds, and the configuration of an existing collection never changes.
C24_CreateOnlyWhileAbsent ==
    /\ [][StoreKeepsConfiguration]_vars
    /\ [](\A k \in DOMAIN qd_history :
            qd_history[k].listing = "listed" =>
                /\ qd_history[k].result = "True"
                /\ qd_history[k].args.collection_name \in ExistedAt(k))
    /\ [](\A name \in CollectionNames :
            Cardinality({ i \in CreateRequestsFor(name) : qd_creates[i].ok }) <= 1)
    /\ [](Len(qd_creates) =
            Cardinality({ k \in DOMAIN qd_history : qd_history[k].listing = "absent" }))

C24_Witness ==
    /\ Len(qd_history) = 2
    /\ qd_history[1].listing = "absent" /\ qd_history[1].result = "True"
    /\ qd_history[2].listing = "listed"
    /\ qd_history[2].args.collection_name = qd_history[1].args.collection_name
    /\ qd_history[2].args.vector_size # qd_history[1].args.vector_size
    /\ Len(qd_creates) = 1

\* the metric a call asked for, as the store names it
RequestedConfig(a) ==
    VectorParams(a.vector_size,
                 IF a.distance \in DOMAIN distance_map
                 THEN distance_map[a.distance] ELSE "unknown")

\* C25: a call for a collection that exists with another vector size or
\* distance metric than requested does not return success, and a distance
\* metric name that is not recognised is rejected, never replaced by a default.
C25_MismatchAndUnknownMetricRejected ==
    \A k \in DOMAIN qd_history :
        qd_history[k].result = "True" =>
            /\ qd_history[k].args.distance \in DOMAIN distance_map
            /\ qd_store[qd_history[k].args.collection_name] =
                   RequestedConfig(qd_history[k].args)

\* ---------------------------------------------------------------------------
\* the nearest-neighbour searches: similarity_search (retrieve.py),
\* RetrievalAgent.retrieve_information (agent.py), detect_duplicate_content
\* (main.py).  A query vector is represented by its length.

MaxSearchCalls == 2

VectorLengths == {0, 768, 1024}
SearchLimits == {0, 5, 101}

InitSearch ==
    /\ AtRest
    /\ index = {}
    /\ HarnessAtRest
    /\ ChunkAtRest /\ EmbedAtRest /\ RateAtRest /\ CrawlAtRest
    /\ IngestAtRest /\ ToolsAtRest
    /\ qd_store \in InitialStores
    /\ qd_creates = <<>>
    /\ qd_history = <<>>
    /\ se_history = <<>>
    /\ se_searches = <<>>

SearchUnchanged == UNCHANGED <<agentVars, classifyVars, ctorVars, chunkVars, embedVars,
                               rateVars, crawlVars, storeVars, ingestVars, toolVars>>

CanSearch == Len(se_history) < MaxSearchCalls

\* collection_info.config.params.vectors.size; 0 when there is no such collection
collection_dimension(name) == IF name \in DOMAIN qd_store THEN qd_store[name].size ELSE 0

Searched(op, name, vector_len, outcome) ==
    [op |-> op, collection |-> name, vector_len |-> vector_len, outcome |-> outcome]

\* a search request as the store receives it
SearchRequest(op, name, vector_len, checked) ==
    [by |-> op, collection |-> name, vector_len |-> vector_len,
     dimension |-> collection_dimension(name), checked |-> checked]

\* the store answers a search: an error unless the collection exists and the
\* vector has its dimension
store_search(name, vector_len) ==
    IF name \in DOMAIN qd_store /\ vector_len = qd_store[name].size THEN "ok" ELSE "error"

\* similarity_search: the parameter checks that raise ValueError
search_args_invalid(name, vector_len, limit) ==
    \/ IsBlank(name)
    \/ vector_len = 0
    \/ limit <= 0
    \/ limit > 100

SimilaritySearchRaises(name, vector_len, limit) ==
    /\ CanSearch
    /\ search_args_invalid(name, vector_len, limit)
    /\ se_history' = Append(se_history, Searched("similarity_search", name, vector_len, "ValueError"))
    /\ UNCHANGED se_searches
    /\ SearchUnchanged

\* get_collection raises: wrapped in ConnectionError
SimilaritySearchNoCollection(name, vector_len, limit) ==
    /\ CanSearch
    /\ ~ search_args_invalid(name, vector_len, limit)
    /\ name \notin DOMAIN qd_store
    /\ se_history' = Append(se_history, Searched("similarity_search", name, vector_len, "ConnectionError"))
    /\ UNCHANGED se_searches
    /\ SearchUnchanged

\* len(query_vector) != expected_vector_size: the ValueError is caught by the
\* function's own handler and leaves as a ConnectionError that quotes it
SimilaritySearchMismatch(name, vector_len, limit) ==
    /\ CanSearch
    /\ ~ search_args_invalid(name, vector_len, limit)
    /\ name \in DOMAIN qd_store
    /\ vector_len # collection_dimension(name)
    /\ se_history' = Append(se_history, Searched("similarity_search", name, vector_len,
                                                 "ConnectionError: dimension mismatch"))
    /\ UNCHANGED se_searches
    /\ SearchUnchanged

\* the search is issued; a failing search leaves as a ConnectionError
SimilaritySearchIssued(name, vector_len, limit, reply) ==
    /\ CanSearch
    /\ ~ search_args_invalid(name, vector_len, limit)
    /\ name \in DOMAIN qd_store
    /\ vector_len = collection_dimension(name)
    /\ se_searches' = Append(se_searches, SearchRequest("similarity_search", name, vector_len, TRUE))
    /\ se_history' = Append(se_history, Searched("similarity_search", name, vector_len,
                                IF reply = "ok" THEN "results" ELSE "ConnectionError"))
    /\ SearchUnchanged

\* retrieve_information: get_collection raises
RetrieveNoCollection(name) ==
    /\ CanSearch
    /\ name \notin DOMAIN qd_store
    /\ se_history' = Append(se_history, Searched("retrieve_information", name, 0, "ValueError: not found"))
    /\ UNCHANGED se_searches
    /\ SearchUnchanged

\* retrieve_information: get_embedding raises
RetrieveEmbedFails(name) ==
    /\ CanSearch
    /\ name \in DOMAIN qd_store
    /\ se_history' = Append(se_history, Searched("retrieve_information", name, 0, "embedding error"))
    /\ UNCHANGED se_searches
    /\ SearchUnchanged

\* retrieve_information: the embedding goes to query_points as it is
RetrieveIssued(name, vector_len) ==
    /\ CanSearch
    /\ name \in DOMAIN qd_store
    /\ vector_len > 0
    /\ se_searches' = Append(se_searches, SearchRequest("retrieve_information", name, vector_len, FALSE))
    /\ se_history' = Append(se_history, Searched("retrieve_information", name, vector_len,
                                IF store_search(name, vector_len) = "ok"
                                THEN "results" ELSE "store error"))
    /\ SearchUnchanged

\* detect_duplicate_content: blank content, or embed() raises or returns nothing
DetectDuplicateNoSearch(name) ==
    /\ CanSearch
    /\ se_history' = Append(se_history, Searched("detect_duplicate_content", name, 0, "False"))
    /\ UNCHANGED se_searches
    /\ SearchUnchanged

\* detect_duplicate_content: the embedding goes to search as it is; an error
\* of the store is caught and answered with False
DetectDuplicateIssued(name, vector_len, found) ==
    /\ CanSearch
    /\ vector_len > 0
    /\ se_searches' = Append(se_searches, SearchRequest("detect_duplicate_content", name, vector_len, FALSE))
    /\ se_history' = Append(se_history, Searched("detect_duplicate_content", name, vector_len,
                                IF store_search(name, vector_len) = "ok" /\ found
                                THEN "True" ELSE "False"))
    /\ SearchUnchanged

NextSearch ==
    \E name \in CollectionNames, vector_len \in VectorLengths :
        \/ \E limit \in SearchLimits :
              \/ SimilaritySearchRaises(name, vector_len, limit)
              \/ SimilaritySearchNoCollection(name, vector_len, limit)
              \/ SimilaritySearchMismatch(name, vector_len, limit)
              \/ \E reply \in {"ok", "error"} :
                    SimilaritySearchIssued(name, vector_len, limit, reply)
        \/ RetrieveNoCollection(name)
        \/ RetrieveEmbedFails(name)
        \/ RetrieveIssued(name, vector_len)
        \/ DetectDuplicateNoSearch(name)
        \/ \E found \in BOOLEAN : DetectDuplicateIssued(name, vector_len, found)

SpecSearch == InitSearch /\ [][NextSearch]_vars

\* C26: every search the store receives, from any of the three operations,
\* was preceded by a check that the query vector has the collection's
\* dimension, so no search with another length is issued; an operation given
\* a vector of another length fails with a dimension-mismatch error.
C26_SearchOnlyAfterDimensionCheck ==
    /\ \A i \in DOMAIN se_searches :
          /\ se_searches[i].checked
          /\ se_searches[i].vector_len = se_searches[i].dimension
    /\ \A k \in DOMAIN se_history :
          (/\ se_history[k].vector_len > 0
           /\ se_history[k].collection \in DOMAIN qd_store
           /\ se_history[k].vector_len # collection_dimension(se_history[k].collection))
              => se_history[k].outcome \in {"ConnectionError: dimension mismatch",
                                            "ValueError"}

\* ---------------------------------------------------------------------------
\* main() (main.py): one ingestion run, and a second run on the same source

MaxRuns == 2

\* steps that fail for a reason outside the source (a check, an extraction,
\* an embedding, an upsert, the summary), over all runs
MaxFailures == 1

\* `urls[:5]` in test mode
test_mode_limit == 5

\* `len(doc.content) > 500000`
max_content_length == 500000

Page(url, content) == [url |-> url, content |-> content]

\* the sites: none, one short page, a short and a long page, a short page and
\* a page with a run of blanks, six short pages
IngestSites ==
    { <<>>,
      <<Page(<<"p","1">>, <<"a","b">>)>>,
      <<Page(<<"p","1">>, <<"a","b">>), Page(<<"p","2">>, <<"a","b","c","d","e","f">>)>>,
      <<Page(<<"p","1">>, <<"a","b">>), Page(<<"p","2">>, <<"a","b","c"," "," "," "," ","d","e">>)>>,
      <<Page(<<"p","1">>, <<"a","b">>), Page(<<"p","2">>, <<"a","b">>), Page(<<"p","3">>, <<"a","b">>),
        Page(<<"p","4">>, <<"a","b">>), Page(<<"p","5">>, <<"a","b">>), Page(<<"p","6">>, <<"a","b">>)>> }

\* the site and the command line: --chunk-size 4 --chunk-overlap 1, with or
\* without --test-mode
IngestSources ==
    [pages : IngestSites, test_mode : BOOLEAN, chunk_size : {4}, chunk_overlap : {1}]

InitIngest ==
    /\ AtRest
    /\ index = {}
    /\ HarnessAtRest
    /\ ChunkAtRest /\ EmbedAtRest /\ RateAtRest /\ CrawlAtRest
    /\ StoreAtRest /\ SearchAtRest /\ ToolsAtRest
    /\ pipeline_status = NoPipeline
    /\ ig_pc = "idle"
    /\ ig_source \in IngestSources
    /\ ig_work = NoWork
    /\ ig_log = <<>>
    /\ ig_points = {}
    /\ ig_runs = <<>>

IngestUnchanged == UNCHANGED <<agentVars, classifyVars, ctorVars, chunkVars, embedVars,
                               rateVars, crawlVars, storeVars, searchVars, toolVars, ig_source>>

\* str(chunk_idx)
RECURSIVE str(_)
str(n) == IF n < 10 THEN <<Digit[n + 1]>> ELSE str(n \div 10) \o <<Digit[(n % 10) + 1]>>

\* `content[:100]`
first_100(content) == SubSeq(content, 1, Min(100, Len(content)))

\* md5(url + content[:100]), the digest standing for the text it was made of
document_id(url, content) == url \o first_100(content)

\* a chunk id that also depends on the run that made it
chunk_id_PerRun(url, chunk_idx, chunk) ==
    url \o str(chunk_idx) \o first_100(chunk) \o str(Len(ig_runs))

\* md5(doc.url + str(chunk_idx) + chunk[:100])
chunk_id(url, chunk_idx, chunk) == url \o str(chunk_idx) \o first_100(chunk)

\* ProcessingPipeline(status=..., source_url=args.url, start_time=now)
ProcessingPipeline(status) == [status |-> status, errors |-> <<>>]

\* status = "failed" and one more entry in the error list
Failed(message) ==
    [pipeline_status EXCEPT !.status = "failed", !.errors = Append(@, message)]

Step(step, ok, last) == [step |-> step, ok |-> ok, last |-> last]

\* what a run leaves behind when main() returns
RunRecord(status, work, points) ==
    [status |-> status.status, errors |-> status.errors, ids |-> work.ids,
     points_count |-> Cardinality(points)]

\* the orders list(discovered_urls) can give, a set having no order of its
\* own: the order the pages were found in, and the reverse
ListOrders(pages) ==
    { pages, [i \in DOMAIN pages |-> pages[Len(pages) + 1 - i]] }

\* the page a URL of the site serves
PageOf(url) == ig_source.pages[CHOOSE i \in DOMAIN ig_source.pages : ig_source.pages[i].url = url]

\* main() starts: the status object is made with status "running"
IngestStart ==
    /\ ig_pc \in {"idle", "done"}
    /\ Len(ig_runs) < MaxRuns
    /\ pipeline_status' = ProcessingPipeline("running")
    /\ ig_pc' = "validate_site"
    /\ ig_work' = [NoWork EXCEPT !.failures = ig_work.failures]
    /\ ig_log' = <<>>
    /\ UNCHANGED <<ig_points, ig_runs>>
    /\ IngestUnchanged

\* a step may still fail
CanFail == ig_work.failures < MaxFailures

\* one more failed step
OneMoreFailure == [ig_work EXCEPT !.failures = @ + 1]

\* the four checks before the crawl, in the order of the code
PreflightSteps == <<"validate_site", "validate_key", "validate_store", "create_collection">>

after_preflight(step) ==
    CASE step = "validate_site" -> "validate_key"
      [] step = "validate_key" -> "validate_store"
      [] step = "validate_store" -> "create_collection"
      [] step = "create_collection" -> "crawl"

\* validate_and_access_site, validate_cohere_api_key,
\* validate_qdrant_connection, create_collection: on a failure the status
\* becomes failed, an error is appended and main() returns
Preflight(ok) ==
    /\ \E i \in DOMAIN PreflightSteps : ig_pc = PreflightSteps[i]
    /\ ~ ok => CanFail
    /\ ig_log' = Append(ig_log, Step(ig_pc, ok, TRUE))
    /\ IF ok
       THEN /\ ig_pc' = after_preflight(ig_pc)
            /\ UNCHANGED <<pipeline_status, ig_runs, ig_work>>
       ELSE /\ pipeline_status' = Failed(ig_pc)
            /\ ig_pc' = "done"
            /\ ig_work' = OneMoreFailure
            /\ ig_runs' = Append(ig_runs, RunRecord(pipeline_status', ig_work, ig_points))
    /\ UNCHANGED ig_points
    /\ IngestUnchanged

\* `urls[:5]` when --test-mode is given
limit_urls(urls, test_mode) ==
    IF test_mode THEN SubSeq(urls, 1, Min(test_mode_limit, Len(urls))) ELSE urls

\* get_all_urls, `if not urls`, the test mode limit
Discover ==
    /\ ig_pc = "crawl"
    /\ \E order \in ListOrders(ig_source.pages) :
       LET urls == [i \in DOMAIN order |-> order[i].url]
       IN  /\ ig_log' = Append(ig_log, Step("crawl", urls # <<>>, TRUE))
           /\ IF urls = <<>>
              THEN /\ pipeline_status' = Failed("No URLs discovered")
                   /\ ig_pc' = "done"
                   /\ ig_runs' = Append(ig_runs, RunRecord(pipeline_status', ig_work, ig_points))
                   /\ UNCHANGED ig_work
              ELSE /\ ig_work' = [ig_work EXCEPT !.urls = limit_urls(urls, ig_source.test_mode),
                                                !.next = 1]
                   /\ ig_pc' = "extract"
                   /\ UNCHANGED <<pipeline_status, ig_runs>>
    /\ UNCHANGED ig_points
    /\ IngestUnchanged

\* one pass of the extraction loop; after the last URL, `if not documents`
Extract(ok) ==
    /\ ig_pc = "extract"
    /\ ~ ok => CanFail
    /\ LET url == ig_work.urls[ig_work.next]
           last == ig_work.next = Len(ig_work.urls)
           content == PageOf(url).content
           documents == IF ok
                        THEN Append(ig_work.documents,
                                    [id |-> document_id(url, content), url |-> url,
                                     content |-> content])
                        ELSE ig_work.documents
           recorded == IF ok THEN pipeline_status
                       ELSE [pipeline_status EXCEPT
                                !.errors = Append(@, "Failed to extract content")]
       IN  /\ ig_log' = Append(ig_log, Step("extract", ok, last))
           /\ ig_work' = [ig_work EXCEPT !.documents = documents,
                                         !.next = IF last THEN 1 ELSE @ + 1,
                                         !.failures = IF ok THEN @ ELSE @ + 1]
           /\ IF last /\ documents = <<>>
              THEN /\ pipeline_status' =
                          [recorded EXCEPT !.status = "failed",
                                           !.errors = Append(@, "No valid documents extracted")]
                   /\ ig_pc' = "done"
                   /\ ig_runs' = Append(ig_runs, RunRecord(pipeline_status', ig_work', ig_points))
              ELSE /\ pipeline_status' = recorded
                   /\ ig_pc' = IF last THEN "store" ELSE "extract"
                   /\ UNCHANGED ig_runs
    /\ UNCHANGED ig_points
    /\ IngestUnchanged

\* the document the storing loop is at, and its chunks
CurrentDocument == ig_work.documents[ig_work.next]
CurrentChunks ==
    chunk_text(CurrentDocument.content, ig_source.chunk_size, ig_source.chunk_overlap).chunks
LastDocument == ig_work.next = Len(ig_work.documents)

\* `len(chunks) == 1 and chunks[0] == doc.content`
not_chunked(doc, cs) == Len(cs) = 1 /\ cs[1] = doc.content

\* the test that never finds a run without stored embeddings
stores_nothing_Never(successful_stores) == FALSE

\* `storage_results["successful_items"] == 0`
stores_nothing(successful_stores) == successful_stores = 0

\* the end of one pass of the storing loop; after the last document the
\* status becomes failed if nothing was stored and completed otherwise
AfterDocument(status, work, points, entries) ==
    /\ ig_log' = ig_log \o entries
    /\ ig_points' = points
    /\ IF ~ LastDocument
       THEN /\ ig_work' = [work EXCEPT !.next = @ + 1]
            /\ pipeline_status' = status
            /\ ig_pc' = "store"
            /\ UNCHANGED ig_runs
       ELSE /\ ig_work' = work
            /\ IF stores_nothing(work.successful_stores)
               THEN /\ pipeline_status' =
                           [status EXCEPT !.status = "failed",
                               !.errors = Append(@, "No embeddings were successfully stored in Qdrant")]
                    /\ ig_pc' = "done"
                    /\ ig_runs' = Append(ig_runs, RunRecord(pipeline_status', work, points))
               ELSE /\ pipeline_status' = [status EXCEPT !.status = "completed"]
                    /\ ig_pc' = "summary"
                    /\ UNCHANGED ig_runs

\* embed() raises for the document: nothing in the loop catches it, the
\* handler at the end of main() sets failed and the run is over
StoreRaises ==
    /\ ig_pc = "store"
    /\ Len(CurrentDocument.content) <= max_content_length
    /\ CanFail
    /\ ig_log' = Append(ig_log, Step("embed", FALSE, LastDocument))
    /\ pipeline_status' = Failed("Pipeline execution failed")
    /\ ig_pc' = "done"
    /\ ig_work' = OneMoreFailure
    /\ ig_runs' = Append(ig_runs, RunRecord(pipeline_status', ig_work, ig_points))
    /\ UNCHANGED ig_points
    /\ IngestUnchanged

\* a document in one piece: embed([doc.content]), save_chunk_to_qdrant
StoreSingle(ok) ==
    /\ ig_pc = "store"
    /\ Len(CurrentDocument.content) <= max_content_length
    /\ not_chunked(CurrentDocument, CurrentChunks)
    /\ ~ ok => CanFail
    /\ AfterDocument(
          IF ok THEN pipeline_status
          ELSE [pipeline_status EXCEPT !.errors = Append(@, "Failed to store embedding")],
          IF ok THEN [ig_work EXCEPT !.successful_stores = @ + 1,
                                     !.ids = @ \cup {CurrentDocument.id}]
          ELSE [ig_work EXCEPT !.failed_stores = @ + 1, !.failures = @ + 1],
          IF ok THEN ig_points \cup {CurrentDocument.id} ELSE ig_points,
          <<Step("embed", TRUE, LastDocument), Step("upsert", ok, LastDocument)>>)
    /\ IngestUnchanged

\* embed(chunks) leaves out the blank chunks
embedded_chunks(cs) == { i \in DOMAIN cs : ~ IsBlank(cs[i]) }

\* a chunked document whose embeddings do not match its chunks:
\* failed_stores grows, nothing is stored, the loop goes on
StoreMismatch ==
    /\ ig_pc = "store"
    /\ Len(CurrentDocument.content) <= max_content_length
    /\ ~ not_chunked(CurrentDocument, CurrentChunks)
    /\ \/ embedded_chunks(CurrentChunks) = {}
       \/ Cardinality(embedded_chunks(CurrentChunks)) # Len(CurrentChunks)
    /\ AfterDocument(
          pipeline_status,
          [ig_work EXCEPT !.failed_stores = @ + Len(CurrentChunks)],
          ig_points,
          <<Step("embed", TRUE, LastDocument), Step("mismatch", FALSE, LastDocument)>>)
    /\ IngestUnchanged

\* the ids of the chunk documents of a document
chunk_ids(doc, cs) == { chunk_id(doc.url, i - 1, cs[i]) : i \in DOMAIN cs }

\* a chunked document: embed(chunks), batch_store_embeddings (the chunks of
\* a document of the model fit in one batch)
StoreChunks(ok) ==
    /\ ig_pc = "store"
    /\ Len(CurrentDocument.content) <= max_content_length
    /\ ~ not_chunked(CurrentDocument, CurrentChunks)
    /\ Cardinality(embedded_chunks(CurrentChunks)) = Len(CurrentChunks)
    /\ CurrentChunks # <<>>
    /\ ~ ok => CanFail
    /\ AfterDocument(
          IF ok THEN pipeline_status
          ELSE [pipeline_status EXCEPT !.errors = Append(@, "Batch 1 failed")],
          IF ok THEN [ig_work EXCEPT !.successful_stores = @ + Len(CurrentChunks),
                                     !.ids = @ \cup chunk_ids(CurrentDocument, CurrentChunks)]
          ELSE [ig_work EXCEPT !.failed_stores = @ + Len(CurrentChunks), !.failures = @ + 1],
          IF ok THEN ig_points \cup chunk_ids(CurrentDocument, CurrentChunks) ELSE ig_points,
          <<Step("embed", TRUE, LastDocument), Step("upsert", ok, LastDocument)>>)
    /\ IngestUnchanged

\* after `status = "completed"`: the verification, the summary and its
\* prints, still inside the try block; an exception there sets failed
Summary(raises) ==
    /\ ig_pc = "summary"
    /\ raises => CanFail
    /\ ig_work' = IF raises THEN OneMoreFailure ELSE ig_work
    /\ ig_log' = Append(ig_log, Step("summary", ~ raises, TRUE))
    /\ pipeline_status' = IF raises THEN Failed("Pipeline execution failed")
                          ELSE pipeline_status
    /\ ig_pc' = "done"
    /\ ig_runs' = Append(ig_runs, RunRecord(pipeline_status', ig_work, ig_points))
    /\ UNCHANGED ig_points
    /\ IngestUnchanged

NextIngest ==
    \/ IngestStart
    \/ \E ok \in BOOLEAN : Preflight(ok)
    \/ Discover
    \/ \E ok \in BOOLEAN : Extract(ok)
    \/ StoreRaises
    \/ \E ok \in BOOLEAN : StoreSingle(ok)
    \/ StoreMismatch
    \/ \E ok \in BOOLEAN : StoreChunks(ok)
    \/ \E raises \in BOOLEAN : Summary(raises)

SpecIngest == InitIngest /\ [][NextIngest]_vars

StatusValues == {"pending", "running", "completed", "failed"}

\* the moves of the status: a new run starts at pending, pending moves to
\* running, running moves to completed or to failed, nothing else changes it
StatusStep ==
    IF ig_pc \in {"idle", "done"}
    THEN ig_pc' # ig_pc => pipeline_status'.status = "pending"
    ELSE pipeline_status'.status # pipeline_status.status =>
            \/ pipeline_status.status = "pending" /\ pipeline_status'.status = "running"
            \/ /\ pipeline_status.status = "running"
               /\ pipeline_status'.status \in {"completed", "failed"}

\* a step of a run leaves a completed or failed status as it is
TerminalStatusKept ==
    (ig_pc \notin {"idle", "done"} /\ pipeline_status.status \in {"completed", "failed"})
        => pipeline_status'.status = pipeline_status.status

\* C27: the status of a run is always one of pending, running, completed and
\* failed; a run starts at pending and moves to running when it starts; a
\* status of completed or failed never changes again.
C27_StatusLifecycle ==
    /\ [](ig_pc # "idle" => pipeline_status.status \in StatusValues)
    /\ [][StatusStep]_vars
    /\ [][TerminalStatusKept]_vars

\* the steps of a log that belong to the named loop
StepsOf(log, names) == { k \in DOMAIN log : log[k].step \in names }

\* a fatal condition has occurred in the steps of the log: a check before the
\* crawl failed, no URL was discovered, the extraction loop ended without a
\* document, or the storing loop ended without a stored embedding
FatalIn(log) ==
    \/ \E k \in DOMAIN log :
          /\ log[k].step \in {"validate_site", "validate_key", "validate_store",
                              "create_collection", "crawl"}
          /\ ~ log[k].ok
    \/ /\ \E k \in StepsOf(log, {"extract"}) : log[k].last
       /\ \A k \in StepsOf(log, {"extract"}) : ~ log[k].ok
    \/ /\ \E k \in StepsOf(log, {"upsert", "mismatch"}) : log[k].last
       /\ \A k \in StepsOf(log, {"upsert", "mismatch"}) : ~ log[k].ok

\* C28: once a fatal condition has occurred the run is over with status
\* failed and a non-empty error list, it is not completed, and no crawl,
\* extraction, embedding or upsert step follows the step that failed.
C28_FatalConditionFailsRun ==
    FatalIn(ig_log) =>
        /\ pipeline_status.status = "failed"
        /\ pipeline_status.errors # <<>>
        /\ ig_pc = "done"
        /\ ig_runs[Len(ig_runs)].status = "failed"
        /\ \A k \in 1..(Len(ig_log) - 1) : ~ FatalIn(SubSeq(ig_log, 1, k))

C28_Witness ==
    /\ FatalIn(ig_log)
    /\ Len(ig_work.documents) = 1
    /\ ig_log[Len(ig_log)] = Step("upsert", FALSE, TRUE)
    /\ pipeline_status.status = "failed"
    /\ Len(pipeline_status.errors) = 2

\* the documents the storing loop has taken up
Attempted == StepsOf(ig_log, {"embed"})

\* the failures of single documents the log holds
DocumentFailures ==
    { k \in StepsOf(ig_log, {"extract", "embed", "upsert", "mismatch"}) : ~ ig_log[k].ok }

\* C29: a failure while one document is processed is recorded in the error
\* list and does not end the run: when the run is over every extracted
\* document has been attempted, and the run is completed only then.
C29_DocumentFailureDoesNotAbort ==
    /\ Cardinality(DocumentFailures) <= Len(pipeline_status.errors)
    /\ (ig_pc = "done" /\ Attempted # {}) =>
          Cardinality(Attempted) = Len(ig_work.documents)
    /\ pipeline_status.status = "completed" =>
          Cardinality(Attempted) = Len(ig_work.documents)

\* a run that completed without any recorded error
CleanRun(r) == r.status = "completed" /\ r.errors = <<>>

\* test mode cuts the list of discovered URLs
Truncated == ig_source.test_mode /\ Len(ig_source.pages) > test_mode_limit

SameIdsAndCount(r1, r2) == r1.ids = r2.ids /\ r1.points_count = r2.points_count

SourceIds ==
    UNION { {document_id(ig_source.pages[p].url, ig_source.pages[p].content)} \cup
            chunk_ids(ig_source.pages[p],
                      chunk_text(ig_source.pages[p].content, ig_source.chunk_size,
                                 ig_source.chunk_overlap).chunks) :
            p \in DOMAIN ig_source.pages }

RootFetchedOk ==
    \E i \in LoopFetches :
        /\ cr_fetched[i].url = cr_root
        /\ cr_fetched[i].depth = 0
        /\ cr_fetched[i].status = 200

\* C38: whenever the root page (a content page) was fetched successfully,
\* the URLs get_all_urls returns contain root_url, whether or not a crawled
\* page links back to it.
C38_RootIsReturned ==
    (cr_pc = "returned" /\ RootFetchedOk /\ is_content_page(cr_root))
        => cr_root \in cr_discovered

\* ---------------------------------------------------------------------------
\* Python floats: IEEE 754 binary64, round to nearest, ties to even.  A
\* natural number is a sequence of limbs in base 2^15, least significant
\* first, without leading zero limbs; a float is m * 2^e with m of 53 bits,
\* or zero.  All values met here are far from overflow and underflow.

\* bits of the mantissa of a float
MantissaBits == 53

Limb(a, i) == IF i <= Len(a) THEN a[i] ELSE 0

RECURSIVE Pow2(_)
Pow2(k) == IF k = 0 THEN 1 ELSE 2 * Pow2(k - 1)

RECURSIVE BigNorm(_)
BigNorm(a) ==
    IF a = <<>> THEN <<>>
    ELSE IF a[Len(a)] = 0 THEN BigNorm(SubSeq(a, 1, Len(a) - 1)) ELSE a

RECURSIVE BigAddFrom(_, _, _, _)
BigAddFrom(a, b, i, carry) ==
    IF i > Len(a) /\ i > Len(b)
    THEN IF carry = 0 THEN <<>> ELSE <<carry>>
    ELSE LET s == Limb(a, i) + Limb(b, i) + carry
         IN  <<s % 32768>> \o BigAddFrom(a, b, i + 1, s \div 32768)

BigAdd(a, b) == BigAddFrom(a, b, 1, 0)

\* a times the single limb d
RECURSIVE BigMulLimbFrom(_, _, _, _)
BigMulLimbFrom(a, d, i, carry) ==
    IF i > Len(a)
    THEN IF carry = 0 THEN <<>> ELSE <<carry>>
    ELSE LET s == a[i] * d + carry
         IN  <<s % 32768>> \o BigMulLimbFrom(a, d, i + 1, s \div 32768)

BigMulLimb(a, d) == BigNorm(BigMulLimbFrom(a, d, 1, 0))

BigShiftLimbs(a, n) == IF a = <<>> THEN <<>> ELSE [i \in 1..n |-> 0] \o a

RECURSIVE BigMulFrom(_, _, _)
BigMulFrom(a, b, j) ==
    IF j > Len(b) THEN <<>>
    ELSE BigAdd(BigShiftLimbs(BigMulLimb(a, b[j]), j - 1), BigMulFrom(a, b, j + 1))

BigMul(a, b) == BigMulFrom(a, b, 1)

\* floor(a / d) for a single limb d, from the most significant limb down
RECURSIVE BigDivLimbFrom(_, _, _, _)
BigDivLimbFrom(a, d, i, rem) ==
    IF i = 0 THEN <<>>
    ELSE LET cur == rem * 32768 + a[i]
         IN  BigDivLimbFrom(a, d, i - 1, cur % d) \o <<cur \div d>>

BigDivLimb(a, d) == BigNorm(BigDivLimbFrom(a, d, Len(a), 0))

RECURSIVE BigModLimbFrom(_, _, _, _)
BigModLimbFrom(a, d, i, rem) ==
    IF i = 0 THEN rem ELSE BigModLimbFrom(a, d, i - 1, (rem * 32768 + a[i]) % d)

BigModLimb(a, d) == BigModLimbFrom(a, d, Len(a), 0)

BigShl(a, k) == BigMulLimb(BigShiftLimbs(a, k \div 15), Pow2(k % 15))

BigShr(a, k) ==
    IF k \div 15 >= Len(a) THEN <<>>
    ELSE BigDivLimb(SubSeq(a, (k \div 15) + 1, Len(a)), Pow2(k % 15))

RECURSIVE BitLen(_)
BitLen(n) == IF n = 0 THEN 0 ELSE 1 + BitLen(n \div 2)

BigBitLen(a) == IF a = <<>> THEN 0 ELSE 15 * (Len(a) - 1) + BitLen(a[Len(a)])

\* bit i of a, bit 0 the least significant
BigBit(a, i) == (Limb(a, (i \div 15) + 1) \div Pow2(i % 15)) % 2

\* the k low bits of a are all zero
BigLowZero(a, k) ==
    /\ \A i \in 1..(k \div 15) : Limb(a, i) = 0
    /\ Limb(a, (k \div 15) + 1) % Pow2(k % 15) = 0

\* a < b
RECURSIVE BigLessFrom(_, _, _)
BigLessFrom(a, b, i) ==
    IF i = 0 THEN FALSE
    ELSE IF a[i] # b[i] THEN a[i] < b[i] ELSE BigLessFrom(a, b, i - 1)

BigLess(a, b) ==
    IF Len(a) # Len(b) THEN Len(a) < Len(b) ELSE BigLessFrom(a, b, Len(a))

Float(m, e) == [m |-> m, e |-> e]
FZero == Float(<<>>, 0)

\* the float nearest to big * 2^e (plus a non-zero rest below the last bit
\* of big when sticky), ties to even
FRound(big, e, sticky) ==
    LET len == BigBitLen(big)
    IN  IF big = <<>> THEN FZero
        ELSE IF len <= MantissaBits
        THEN Float(BigShl(big, MantissaBits - len), e - (MantissaBits - len))
        ELSE LET k == len - MantissaBits
                 q == BigShr(big, k)
                 half == BigBit(big, k - 1) = 1
                 rest == sticky \/ ~ BigLowZero(big, k - 1)
                 up == half /\ (rest \/ q[1] % 2 = 1)
                 r == IF up THEN BigAdd(q, <<1>>) ELSE q
             IN  IF BigBitLen(r) > MantissaBits
                 THEN Float(BigShr(r, 1), e + k + 1)
                 ELSE Float(r, e + k)

\* a * b
FMul(a, b) ==
    IF a = FZero \/ b = FZero THEN FZero
    ELSE FRound(BigMul(a.m, b.m), a.e + b.e, FALSE)

\* a + b
FAdd(a, b) ==
    IF a = FZero THEN b
    ELSE IF b = FZero THEN a
    ELSE LET e == IF a.e < b.e THEN a.e ELSE b.e
         IN  FRound(BigAdd(BigShl(a.m, a.e - e), BigShl(b.m, b.e - e)), e, FALSE)

\* a < b, for a and b not negative
FLess(a, b) ==
    IF b = FZero THEN FALSE
    ELSE IF a = FZero THEN TRUE
    ELSE IF a.e # b.e THEN a.e < b.e
    ELSE BigLess(a.m, b.m)

\* a >= b
FGe(a, b) == ~ FLess(a, b)

\* the float nearest to n / d, for 0 <= n and 0 < d, both below 2^15
FromDecimal(n, d) ==
    IF n = 0 THEN FZero
    ELSE LET scaled == BigShl(<<n>>, 75)
         IN  FRound(BigDivLimb(scaled, d), -75, BigModLimb(scaled, d) # 0)

\* the float a decimal literal of h hundredths denotes (0.35 is h = 35)
FromHundredths(h) == FromDecimal(h, 100)

\* ---------------------------------------------------------------------------
\* ConfidenceScore: overall and level.  The signals of a ConfidenceScore
\* record are hundredths; the properties compute with the floats they denote.

weights ==
    [retrieval_quality |-> FromHundredths(35), coverage_score |-> FromHundredths(25),
     entailment_score |-> FromHundredths(25), lexical_overlap |-> FromHundredths(15)]

\* sum(weights[k] * getattr(self, k) for k in weights): the terms are added
\* to 0 in the order of the dictionary
overall(c) ==
    FAdd(FAdd(FAdd(FAdd(FZero,
        FMul(weights.retrieval_quality, FromHundredths(c.retrieval_quality))),
        FMul(weights.coverage_score, FromHundredths(c.coverage_score))),
        FMul(weights.entailment_score, FromHundredths(c.entailment_score))),
        FMul(weights.lexical_overlap, FromHundredths(c.lexical_overlap)))

level(c) ==
    LET score == overall(c)
    IN  IF FGe(score, FromHundredths(80)) THEN "high"
        ELSE IF FGe(score, FromHundredths(60)) THEN "medium"
        ELSE "low"

\* values each signal is drawn from, in hundredths
SignalGrid == {0, 40, 60, 80, 100}

InitConfidence ==
    /\ AtRest
    /\ index = {}
    /\ HarnessAtRest
    /\ ChunkAtRest /\ EmbedAtRest /\ RateAtRest /\ CrawlAtRest /\ IndexAtRest
    /\ ApiAtRest /\ RetryAtRest /\ BatchAtRest /\ DocumentAtRest
    /\ cs_in \in { ConfidenceScore(rq, cov, ent, lex) :
                       rq \in SignalGrid, cov \in SignalGrid,
                       ent \in SignalGrid, lex \in SignalGrid }
    /\ cs_out = <<>>

ConfidenceUnchanged ==
    UNCHANGED <<agentVars, classifyVars, ctorVars, chunkVars, embedVars, rateVars,
                crawlVars, indexVars, apiVars, retryVars, batchVars, documentVars>>

\* the two properties are read from the ConfidenceScore
ReadConfidence ==
    /\ cs_out = <<>>
    /\ cs_out' = [overall |-> overall(cs_in), level |-> level(cs_in)]
    /\ UNCHANGED cs_in
    /\ ConfidenceUnchanged

NextConfidence == ReadConfidence

SpecConfidence == InitConfidence /\ [][NextConfidence]_vars

\* the weighted sum of the signals, in ten-thousandths
WeightedSum(c) ==
    35 * c.retrieval_quality + 25 * c.coverage_score
        + 25 * c.entailment_score + 15 * c.lexical_overlap

\* f is the float nearest to x ten-thousandths, or differs from it by the
\* rounding of the additions only: it lies within one ten-thousandth of it
NearTenThousandths(f, x) ==
    IF x = 0 THEN f = FZero
    ELSE FLess(FromDecimal(x - 1, 10000), f) /\ FLess(f, FromDecimal(x + 1, 10000))

\* C33: overall is 0.35*retrieval_quality + 0.25*coverage_score +
\* 0.25*entailment_score + 0.15*lexical_overlap, and level is 'high' exactly
\* when that sum is at least 0.8, 'medium' exactly when it is at least 0.6 and
\* below 0.8, 'low' otherwise, for every combination of the signals on the
\* grid, the combinations whose sum is exactly 0.8 or 0.6 included.
C33_OverallAndLevel ==
    cs_out # <<>> =>
        /\ NearTenThousandths(cs_out.overall, WeightedSum(cs_in))
        /\ cs_out.level = IF WeightedSum(cs_in) >= 8000 THEN "high"
                          ELSE IF WeightedSum(cs_in) >= 6000 THEN "medium"
                          ELSE "low"

\* ---------------------------------------------------------------------------
\* query(): the confidence of two retrieval results with as many chunks

\* surviving chunks of each of the two retrieval results, at most
MaxCompared == 2

\* similarity scores of the surviving chunks, in hundredths
ComparedScores == ScoreValues \cup {0, 100}

ScoredChunks(n) == [1..n -> [similarity_score : ComparedScores]]

InitCompare ==
    /\ AtRest
    /\ index = {}
    /\ HarnessAtRest
    /\ ChunkAtRest /\ EmbedAtRest /\ RateAtRest /\ CrawlAtRest /\ IndexAtRest
    /\ ApiAtRest /\ RetryAtRest /\ BatchAtRest /\ DocumentAtRest
    /\ \E n \in 1..MaxCompared :
           cs_in \in [first : ScoredChunks(n), second : ScoredChunks(n)]
    /\ cs_out = <<>>

\* query() builds the ConfidenceScore of each retrieval result; overall and
\* level are read from it
QueryConfidence ==
    /\ cs_out = <<>>
    /\ cs_out' = [r \in {"first", "second"} |->
                     [confidence |-> Confidence(cs_in[r]),
                      overall |-> overall(Confidence(cs_in[r])),
                      level |-> level(Confidence(cs_in[r]))]]
    /\ UNCHANGED cs_in
    /\ ConfidenceUnchanged

NextCompare == QueryConfidence

SpecCompare == InitCompare /\ [][NextCompare]_vars

\* the highest similarity score among the chunks cs
HighestScore(cs) ==
    CHOOSE m \in {cs[i].similarity_score : i \in DOMAIN cs} :
        \A i \in DOMAIN cs : cs[i].similarity_score <= m

\* C32: of two retrieval results with the same number (at least one) of
\* surviving chunks, the one with the higher maximum similarity score gets a
\* confidence whose overall is greater than or equal to the other's.
C32_ConfidenceMonotone ==
    (cs_out # <<>> /\ HighestScore(cs_in.first) > HighestScore(cs_in.second))
        => FGe(cs_out.first.overall, cs_out.second.overall)

\* two results of two chunks each, the first with the higher maximum and
\* the lower minimum, and a strictly higher overall
C32_Witness ==
    /\ cs_out # <<>>
    /\ Len(cs_in.first) = 2
    /\ HighestScore(cs_in.first) > HighestScore(cs_in.second)
    /\ \E i \in DOMAIN cs_in.first : \A j \in DOMAIN cs_in.second :
           cs_in.first[i].similarity_score < cs_in.second[j].similarity_score
    /\ FLess(cs_out.second.overall, cs_out.first.overall)

\* ---------------------------------------------------------------------------
\* query(): the confidence of the responses it returns

\* the signals query() sets when cs are the surviving chunks
RetrievalSignals(c, cs) ==
    /\ ~ c.null
    /\ c.retrieval_quality = (IF cs = <<>> THEN 0 ELSE HighestScore(cs))
    /\ c.coverage_score = (IF cs = <<>> THEN 0 ELSE 80)
    /\ c.entailment_score = (IF cs = <<>> THEN 0 ELSE 80)
    /\ c.lexical_overlap = 0

\* overall is at most 0.75 and level is not 'high'
BelowHigh(c) ==
    /\ ~ FLess(FromHundredths(75), overall(c))
    /\ level(c) # "high"

\* whatever the highest similarity score between 0 and 1, the signals of
\* the retrieval path give an overall of at most 0.75
RetrievalNeverHigh ==
    \A s \in 0..100 : BelowHigh(ConfidenceScore(s, 80, 80, 0))

\* the response carries a ConfidenceScore with overall 1.0 and level 'high'
FullConfidence(c) ==
    /\ ~ c.null
    /\ overall(c) = FromHundredths(100)
    /\ level(c) = "high"

\* C37 as stated: every response to a content query carries the signals of
\* the retrieval path (retrieval_quality the highest similarity score of the
\* surviving chunks, 0 if none; coverage_score = entailment_score = 0.8 with
\* a chunk, else 0; lexical_overlap 0), so overall is at most 0.75 and level
\* is not 'high'; every CONVERSATIONAL response has overall 1.0 and level
\* 'high'.
C37_EveryContentResponse ==
    Returned =>
        /\ response.status # CONVERSATIONAL =>
               RetrievalSignals(response.confidence, chunks) /\ BelowHigh(response.confidence)
        /\ response.status = CONVERSATIONAL => FullConfidence(response.confidence)

\* C37: every SUCCESS or INSUFFICIENT_CONTEXT response carries the signals
\* of the retrieval path, so its overall is at most 0.75 and its level is
\* not 'high'; every CONVERSATIONAL response has overall 1.0 and level
\* 'high'; an ERROR response carries no ConfidenceScore at all.
C37_ConfidenceSignals ==
    /\ RetrievalNeverHigh
    /\ Returned =>
        /\ response.status \in {SUCCESS, INSUFFICIENT_CONTEXT} =>
               RetrievalSignals(response.confidence, chunks) /\ BelowHigh(response.confidence)
        /\ response.status = CONVERSATIONAL => FullConfidence(response.confidence)
        /\ response.status = ERROR => response.confidence.null

\* a SUCCESS response built from two chunks of different scores
C37_Witness ==
    /\ Returned
    /\ response.status = SUCCESS
    /\ Len(chunks) = 2
    /\ chunks[1].similarity_score # chunks[2].similarity_score
    /\ response.confidence.retrieval_quality = 90

\* ---------------------------------------------------------------------------
\* api_server.query_endpoint: the agent's response converted for the client

\* responses agent.query() returns: the greeting, the except branch, and
\* the responses assembled from the surviving chunks and the answer
ReturnedResponses ==
    {GreetingResponse}
        \cup { ErrorResponse(m) : m \in EmbedErrors \cup {CollectionNotFound} }
        \cup { AssembleResponse(<<>>, NoChunksAnswer) }
        \cup { AssembleResponse(FilterHits(h), ans) :
                   h \in { r \in SearchResults(Points, MaxHits, 0) : FilterHits(r) # <<>> },
                   ans \in GeneratedTexts }

InitApi ==
    /\ AtRest
    /\ index = {}
    /\ HarnessAtRest
    /\ ChunkAtRest /\ EmbedAtRest /\ RateAtRest /\ CrawlAtRest /\ IndexAtRest
    /\ ConfidenceAtRest /\ RetryAtRest /\ BatchAtRest /\ DocumentAtRest
    /\ api_in \in ReturnedResponses
    /\ api_out = <<>>

ApiUnchanged ==
    UNCHANGED <<agentVars, classifyVars, ctorVars, chunkVars, embedVars, rateVars,
                crawlVars, indexVars, confidenceVars, retryVars, batchVars,
                documentVars>>

\* asdict() of the agent's dataclass holds its four fields; the pydantic
\* model takes them and fills overall and level with their defaults
ApiConfidenceScore(c) ==
    [null |-> FALSE, retrieval_quality |-> c.retrieval_quality,
     coverage_score |-> c.coverage_score, entailment_score |-> c.entailment_score,
     lexical_overlap |-> c.lexical_overlap, overall |-> FZero, level |-> "low"]

ApiNoConfidence ==
    [null |-> TRUE, retrieval_quality |-> 0, coverage_score |-> 0,
     entailment_score |-> 0, lexical_overlap |-> 0, overall |-> FZero, level |-> "low"]

\* Field(ge=0.0, le=1.0), in hundredths
InUnitRange(x) == 0 <= x /\ x <= 100

\* the field validators of the pydantic AgentResponse, ConfidenceScore and
\* SourceReference reject the arguments
ApiValidationFails(r) ==
    \/ r.status \in {SUCCESS, CONVERSATIONAL} /\ r.answer.null
    \/ r.status = SUCCESS /\ r.sources = <<>>
    \/ r.status \in {INSUFFICIENT_CONTEXT, ERROR} /\ r.error_message.null
    \/ /\ ~ r.confidence.null
       /\ ~ /\ InUnitRange(r.confidence.retrieval_quality)
            /\ InUnitRange(r.confidence.coverage_score)
            /\ InUnitRange(r.confidence.entailment_score)
            /\ InUnitRange(r.confidence.lexical_overlap)
    \/ \E i \in DOMAIN r.sources : ~ InUnitRange(r.sources[i].relevance_score)

\* the pydantic AgentResponse the endpoint builds
ApiAgentResponse(r) ==
    [status |-> r.status,
     answer |-> r.answer,
     confidence |-> IF r.confidence.null THEN ApiNoConfidence
                    ELSE ApiConfidenceScore(r.confidence),
     sources |-> IF r.sources # <<>> THEN [null |-> FALSE, items |-> r.sources]
                 ELSE [null |-> TRUE, items |-> <<>>],
     error_message |-> r.error_message]

\* what the client receives
HttpOk(body) == [status_code |-> 200, body |-> body]
HttpError == [status_code |-> 500, body |-> <<>>]

QueryEndpoint ==
    /\ api_out = <<>>
    /\ api_out' = IF ApiValidationFails(api_in) THEN HttpError
                  ELSE HttpOk(ApiAgentResponse(api_in))
    /\ UNCHANGED api_in
    /\ ApiUnchanged

NextApi == QueryEndpoint

SpecApi == InitApi /\ [][NextApi]_vars

\* C39: the API response built from an agent response equals it field by
\* field: same status, answer and error_message, the same sources in the
\* same order, and a confidence whose four signals, overall and level are
\* those of the agent's ConfidenceScore.
C39_ApiResponseEquivalent ==
    api_out # <<>> =>
        /\ api_out.status_code = 200
        /\ api_out.body.status = api_in.status
        /\ api_out.body.answer = api_in.answer
        /\ api_out.body.error_message = api_in.error_message
        /\ api_out.body.sources.items = api_in.sources
        /\ api_out.body.confidence.null = api_in.confidence.null
        /\ ~ api_in.confidence.null =>
              /\ api_out.body.confidence.retrieval_quality = api_in.confidence.retrieval_quality
              /\ api_out.body.confidence.coverage_score = api_in.confidence.coverage_score
              /\ api_out.body.confidence.entailment_score = api_in.confidence.entailment_score
              /\ api_out.body.confidence.lexical_overlap = api_in.confidence.lexical_overlap
              /\ api_out.body.confidence.overall = overall(api_in.confidence)
              /\ api_out.body.confidence.level = level(api_in.confidence)

\* ---------------------------------------------------------------------------
\* retrieve_information: the hits that become chunks

\* the payload text of a hit: its content, or its content_preview when the
\* content is empty
PayloadText(hit) == IF hit.content # <<>> THEN hit.content ELSE hit.content_preview

\* positions of the hits whose stripped payload text has the minimum length
LongEnough(items) ==
    { i \in DOMAIN items : Len(Strip(PayloadText(items[i]))) >= 50 }

\* C34: the chunks retrieve_information returns are exactly the hits whose
\* stripped payload text has at least 50 characters, in the order in which
\* the index returned them (descending by score); no shorter hit reaches
\* the generation or is cited as a source.
C34_OnlyLongEnoughHitsSurvive ==
    LET keep == LongEnough(hits)
    IN  /\ Len(chunks) = Cardinality(keep)
        /\ \A i \in keep :
              LET k == Cardinality({ j \in keep : j <= i })
              IN  /\ chunks[k].chunk_id = hits[i].id
                  /\ chunks[k].text = PayloadText(hits[i])
                  /\ chunks[k].similarity_score = hits[i].score
        /\ \A i, j \in DOMAIN hits : i < j => hits[i].score >= hits[j].score
        /\ calls.chat > 0 => keep # {}
        /\ Returned =>
              \A s \in DOMAIN response.sources :
                  \E i \in keep : hits[i].id = response.sources[s].chunk_id

\* the index returned a hit whose text is long enough only with its
\* trailing blanks, ranked above one that is long enough; only the second
\* is cited
C34_Witness ==
    /\ Returned
    /\ response.status = SUCCESS
    /\ Len(hits) = 2
    /\ Len(PayloadText(hits[1])) >= 50
    /\ LongEnough(hits) = {2}
    /\ Len(response.sources) = 1

\* ---------------------------------------------------------------------------
\* retry_api_call and safe_api_call

\* the argument max_retries, at most
MaxRetries == 3

\* what func raises: two RequestExceptions (an HTTPError with or without
\* its response attribute set), the builtin ConnectionError, and an
\* exception that is neither
ExceptionKinds == {"Timeout", "HTTPError", "HTTPErrorNoResponse", "ConnectionError", "ValueError"}

\* the exceptions tuple: the default (Exception,), or the one safe_api_call
\* passes, (requests.exceptions.RequestException, ConnectionError)
Configured(exceptions) ==
    IF exceptions = "Exception" THEN ExceptionKinds
    ELSE {"Timeout", "HTTPError", "HTTPErrorNoResponse", "ConnectionError"}

\* retry_api_call(func, max_retries, delay, backoff, exceptions) called
\* directly, or by safe_api_call(func, context, default_return, max_retries)
\* with delay and backoff left at their defaults
RetryConfigs ==
    [safe : {FALSE}, max_retries : 0..MaxRetries, delay : {1, 3}, backoff : {2, 3},
     exceptions : {"Exception", "RequestException"}]
        \cup [safe : {TRUE}, max_retries : 0..MaxRetries, delay : {1}, backoff : {2},
              exceptions : {"RequestException"}]

InitRetry ==
    /\ AtRest
    /\ index = {}
    /\ HarnessAtRest
    /\ ChunkAtRest /\ EmbedAtRest /\ RateAtRest /\ CrawlAtRest /\ IndexAtRest
    /\ ConfidenceAtRest /\ ApiAtRest /\ BatchAtRest /\ DocumentAtRest
    /\ rt_cfg \in RetryConfigs
    /\ rt_pc = "idle"
    /\ rt_state = <<>>
    /\ rt_log = <<>>
    /\ rt_out = <<>>

RetryUnchanged ==
    UNCHANGED <<agentVars, classifyVars, ctorVars, chunkVars, embedVars, rateVars,
                crawlVars, indexVars, confidenceVars, apiVars, batchVars,
                documentVars, rt_cfg>>

Returns(value) == [raised |-> FALSE, value |-> value]
Raises(kind) == [raised |-> TRUE, value |-> kind]

Invoked(outcome) == [op |-> "call", outcome |-> outcome]
Slept(seconds) == [op |-> "sleep", outcome |-> seconds]

\* handle_api_error(e, context) reads error.response.status_code of an
\* HTTPError
handle_api_error(kind) ==
    IF kind = "HTTPErrorNoResponse" THEN Raises("AttributeError")
    ELSE Returns("error_msg")

\* what the caller gets when the wrapper raises: the exception, or from
\* the except branch of safe_api_call default_return
WrapperRaises(kind) ==
    IF rt_cfg.safe
    THEN IF handle_api_error(kind).raised THEN handle_api_error(kind)
         ELSE Returns("default_return")
    ELSE Raises(kind)

\* the wrapper is called: retries = 0, current_delay = delay
RetryStart ==
    /\ rt_pc = "idle"
    /\ rt_state' = [retries |-> 0, current_delay |-> rt_cfg.delay]
    /\ rt_pc' = "loop"
    /\ UNCHANGED <<rt_log, rt_out>>
    /\ RetryUnchanged

\* while retries < max_retries fails at once: return None
RetryNoAttempt ==
    /\ rt_pc = "loop"
    /\ ~ (rt_state.retries < rt_cfg.max_retries)
    /\ rt_out' = Returns("None")
    /\ rt_pc' = "done"
    /\ UNCHANGED <<rt_state, rt_log>>
    /\ RetryUnchanged

\* return func(*args, **kwargs)
RetryCallReturns ==
    /\ rt_pc = "loop"
    /\ rt_state.retries < rt_cfg.max_retries
    /\ rt_log' = Append(rt_log, Invoked("ok"))
    /\ rt_out' = Returns("result")
    /\ rt_pc' = "done"
    /\ UNCHANGED rt_state
    /\ RetryUnchanged

\* func raises one of the configured exceptions
RetryCallFails ==
    /\ rt_pc = "loop"
    /\ rt_state.retries < rt_cfg.max_retries
    /\ \E kind \in Configured(rt_cfg.exceptions) :
        /\ rt_log' = Append(rt_log, Invoked(kind))
        /\ rt_state' = [rt_state EXCEPT !.retries = @ + 1]
        /\ IF rt_state.retries + 1 >= rt_cfg.max_retries
           THEN rt_out' = WrapperRaises(kind) /\ rt_pc' = "done"
           ELSE rt_pc' = "sleep" /\ UNCHANGED rt_out
    /\ RetryUnchanged

\* func raises an exception the except clause does not name
RetryCallEscapes ==
    /\ rt_pc = "loop"
    /\ rt_state.retries < rt_cfg.max_retries
    /\ \E kind \in ExceptionKinds \ Configured(rt_cfg.exceptions) :
        /\ rt_log' = Append(rt_log, Invoked(kind))
        /\ rt_out' = WrapperRaises(kind)
    /\ rt_pc' = "done"
    /\ UNCHANGED rt_state
    /\ RetryUnchanged

\* time.sleep(current_delay); current_delay *= backoff
RetrySleep ==
    /\ rt_pc = "sleep"
    /\ rt_log' = Append(rt_log, Slept(rt_state.current_delay))
    /\ rt_state' = [rt_state EXCEPT !.current_delay = @ * rt_cfg.backoff]
    /\ rt_pc' = "loop"
    /\ UNCHANGED rt_out
    /\ RetryUnchanged

NextRetry ==
    \/ RetryStart
    \/ RetryNoAttempt
    \/ RetryCallReturns
    \/ RetryCallFails
    \/ RetryCallEscapes
    \/ RetrySleep

SpecRetry == InitRetry /\ [][NextRetry]_vars

\* positions of the invocations of func in the log
Invocations == { i \in DOMAIN rt_log : rt_log[i].op = "call" }

RECURSIVE Power(_, _)
Power(b, n) == IF n = 0 THEN 1 ELSE b * Power(b, n - 1)

\* the k-th entry of the log is the k-th invocation for odd k, and for even
\* k the sleep of delay * backoff^(k/2 - 1) seconds that follows a failure
BackoffSchedule ==
    \A i \in DOMAIN rt_log :
        IF i % 2 = 1 THEN rt_log[i].op = "call"
        ELSE /\ rt_log[i] = Slept(rt_cfg.delay * Power(rt_cfg.backoff, (i \div 2) - 1))
             /\ rt_log[i - 1].outcome \in Configured(rt_cfg.exceptions)

\* C35: func is invoked at most max_retries times; the first success ends
\* the calls and is returned; between consecutive failed attempts the
\* wrapper sleeps delay, delay*backoff, ... and it does not sleep after the
\* last attempt; after exactly max_retries failures the last exception is
\* raised; an exception outside the configured types propagates at once;
\* safe_api_call never raises and returns default_return when all attempts
\* failed.
C35_RetryContract ==
    /\ Cardinality(Invocations) <= rt_cfg.max_retries
    /\ BackoffSchedule
    /\ \A i \in Invocations :
          rt_log[i].outcome \notin Configured(rt_cfg.exceptions) => i = Len(rt_log)
    /\ rt_pc = "done" =>
          /\ rt_log # <<>> => rt_log[Len(rt_log)].op = "call"
          /\ (rt_log # <<>> /\ ~ rt_cfg.safe) =>
                LET last == rt_log[Len(rt_log)].outcome
                IN  /\ last = "ok" => rt_out = Returns("result")
                    /\ last \in ExceptionKinds => rt_out = Raises(last)
                    /\ last \in Configured(rt_cfg.exceptions)
                          => Cardinality(Invocations) = rt_cfg.max_retries
          /\ rt_cfg.safe =>
                /\ ~ rt_out.raised
                /\ (rt_log # <<>> /\ rt_log[Len(rt_log)].outcome # "ok")
                      => rt_out = Returns("default_return")

\* ---------------------------------------------------------------------------
\* batch_store_embeddings

\* vectors, and documents, handed to one call, at most
MaxItems == 4

\* the argument batch_size (main() passes --batch-size, any int): small
\* ones, the default, and two that are not positive
BatchSizes == {-1, 0, 1, 2, 3, 10}

\* the i-th document stands for itself and its point; the vectors are
\* counted only
BatchInputs == [vectors : 0..MaxItems, documents : 0..MaxItems, batch_size : BatchSizes]

InitBatch ==
    /\ AtRest
    /\ index = {}
    /\ HarnessAtRest
    /\ ChunkAtRest /\ EmbedAtRest /\ RateAtRest /\ CrawlAtRest /\ IndexAtRest
    /\ ConfidenceAtRest /\ ApiAtRest /\ RetryAtRest /\ DocumentAtRest
    /\ bs_in \in BatchInputs
    /\ bs_pc = "idle"
    /\ bs_start = 0
    /\ bs_results = <<>>
    /\ bs_upserts = <<>>

BatchUnchanged ==
    UNCHANGED <<agentVars, classifyVars, ctorVars, chunkVars, embedVars, rateVars,
                crawlVars, indexVars, confidenceVars, apiVars, retryVars,
                documentVars, bs_in>>

\* the results dictionary as it is first built
NewResults(total) ==
    [total_to_process |-> total, successful_batches |-> 0, failed_batches |-> 0,
     successful_items |-> 0, failed_items |-> 0, errors |-> <<>>,
     batch_operation_summary |-> "unset"]

\* len(embedding_vectors) != len(document_contents): an error is appended
\* and the results are returned
BatchMismatch ==
    /\ bs_pc = "idle"
    /\ bs_in.vectors # bs_in.documents
    /\ bs_results' = [NewResults(bs_in.vectors) EXCEPT !.errors = <<"Mismatch">>]
    /\ bs_pc' = "done"
    /\ UNCHANGED <<bs_start, bs_upserts>>
    /\ BatchUnchanged

\* not embedding_vectors: nothing to store
BatchEmpty ==
    /\ bs_pc = "idle"
    /\ bs_in.vectors = bs_in.documents
    /\ bs_in.vectors = 0
    /\ bs_results' = [NewResults(0) EXCEPT !.batch_operation_summary = "No embeddings provided to store"]
    /\ bs_pc' = "done"
    /\ UNCHANGED <<bs_start, bs_upserts>>
    /\ BatchUnchanged

\* the loop over range(0, len(embedding_vectors), batch_size) is entered
BatchStart ==
    /\ bs_pc = "idle"
    /\ bs_in.vectors = bs_in.documents
    /\ bs_in.vectors # 0
    /\ bs_results' = NewResults(bs_in.vectors)
    /\ bs_start' = 0
    /\ bs_pc' = "loop"
    /\ UNCHANGED bs_upserts
    /\ BatchUnchanged

batch_end == Min(bs_start + bs_in.batch_size, bs_in.vectors)

\* the documents of the current batch: document_contents[batch_start:batch_end]
batch_docs == (bs_start + 1)..batch_end

\* the next batch_start: after this batch the loop goes on, whatever
\* happened to it
NextBatch ==
    /\ bs_start' = bs_start + bs_in.batch_size
    /\ bs_pc' = "loop"

\* variant: a failed batch counts batch_size items
failed_in_batch_Full == bs_in.batch_size

\* len(batch_vectors)
failed_in_batch == batch_end - bs_start

\* range(0, len(embedding_vectors), batch_size) yields batch_start: below
\* the length for a positive step, never for a negative one
in_range == bs_in.batch_size > 0 /\ bs_start < bs_in.vectors

\* range() raises ValueError for a step of 0: the outer except branch
\* appends a critical error and the results are returned
BatchRangeRaises ==
    /\ bs_pc = "loop"
    /\ bs_in.batch_size = 0
    /\ bs_results' = [bs_results EXCEPT !.errors = Append(@, "Critical error during batch storage")]
    /\ bs_pc' = "done"
    /\ UNCHANGED <<bs_start, bs_upserts>>
    /\ BatchUnchanged

\* qdrant_client.upsert(points) stores the batch
BatchUpsertOk ==
    /\ bs_pc = "loop"
    /\ in_range
    /\ bs_upserts' = Append(bs_upserts, [ids |-> batch_docs, ok |-> TRUE])
    /\ bs_results' = [bs_results EXCEPT !.successful_batches = @ + 1,
                                        !.successful_items = @ + Cardinality(batch_docs)]
    /\ NextBatch
    /\ BatchUnchanged

\* qdrant_client.upsert(points) raises: the batch is counted as failed
BatchUpsertFails ==
    /\ bs_pc = "loop"
    /\ in_range
    /\ bs_upserts' = Append(bs_upserts, [ids |-> batch_docs, ok |-> FALSE])
    /\ bs_results' = [bs_results EXCEPT !.failed_batches = @ + 1,
                                        !.failed_items = @ + failed_in_batch,
                                        !.errors = Append(@, "Batch failed")]
    /\ NextBatch
    /\ BatchUnchanged

\* the range is exhausted: the summary is written and the results returned
BatchSummary ==
    /\ bs_pc = "loop"
    /\ bs_in.batch_size # 0
    /\ ~ in_range
    /\ bs_results' = [bs_results EXCEPT !.batch_operation_summary = "Batch operation completed"]
    /\ bs_pc' = "done"
    /\ UNCHANGED <<bs_start, bs_upserts>>
    /\ BatchUnchanged

NextBatchStore ==
    \/ BatchMismatch
    \/ BatchEmpty
    \/ BatchStart
    \/ BatchRangeRaises
    \/ BatchUpsertOk
    \/ BatchUpsertFails
    \/ BatchSummary

SpecBatch == InitBatch /\ [][NextBatchStore]_vars

\* ceil(total / batch_size)
BatchCount(total, size) == (total + size - 1) \div size

\* the counters of the results account for every item and every batch,
\* and every batch was handed to the store
AllBatchesProcessed ==
    /\ bs_results.total_to_process = bs_in.vectors
    /\ bs_results.successful_items + bs_results.failed_items
          = bs_results.total_to_process
    /\ bs_in.batch_size > 0 =>
          /\ bs_results.successful_batches + bs_results.failed_batches
                = BatchCount(bs_in.vectors, bs_in.batch_size)
          /\ Len(bs_upserts) = BatchCount(bs_in.vectors, bs_in.batch_size)
    /\ UNION { bs_upserts[i].ids : i \in DOMAIN bs_upserts } = 1..bs_in.documents
    /\ bs_results.successful_batches
          = Cardinality({ i \in DOMAIN bs_upserts : bs_upserts[i].ok })

\* no upsert was issued and an error is reported
NothingStoredWithError ==
    /\ bs_upserts = <<>>
    /\ bs_results.errors # <<>>

\* C36: with equally long non-empty lists and a batch_size of at least 1
\* (ceil(total / batch_size) is meant for those) every batch is handed to
\* the store, also after an upsert failed, and on return successful_items +
\* failed_items = total_to_process and successful_batches + failed_batches =
\* ceil(total / batch_size); with lists of different lengths no upsert is
\* issued and an error is reported.  With a batch_size of 0 or less no
\* batch is processed: no upsert is issued and all four counters stay 0,
\* with a critical error reported for 0 and none for a negative batch_size.
C36_BatchAccounting ==
    bs_pc = "done" =>
        /\ (bs_in.vectors = bs_in.documents /\ bs_in.vectors > 0) =>
              IF bs_in.batch_size >= 1 THEN AllBatchesProcessed
              ELSE /\ bs_upserts = <<>>
                   /\ bs_results.successful_items + bs_results.failed_items = 0
                   /\ bs_results.successful_batches + bs_results.failed_batches = 0
                   /\ (bs_results.errors # <<>>) = (bs_in.batch_size = 0)
        /\ bs_in.vectors # bs_in.documents => NothingStoredWithError

\* three items in batches of two: the first upsert failed, the second,
\* of the one remaining item, was still made and succeeded
C36_Witness ==
    /\ bs_pc = "done"
    /\ bs_in = [vectors |-> 3, documents |-> 3, batch_size |-> 2]
    /\ Len(bs_upserts) = 2
    /\ ~ bs_upserts[1].ok
    /\ bs_upserts[2].ok
    /\ bs_results.failed_items = 2
    /\ bs_results.successful_items = 1

\* ---------------------------------------------------------------------------
\* main(): the points stored for one document

\* length of the short documents, at most
MaxDocLen == 5

\* the document of the end-to-end scenario: 2500 characters, the i-th one
\* the last digit of i
ScenarioText == [i \in 1..2500 |-> Digit[(i % 10) + 1]]

\* contents extract_text_from_url can deliver, scaled down: no blank at
\* either end and no two spaces in a row (the clean-up joins the stripped
\* phrases with one space); a tab inside a phrase is kept
ExtractedTexts ==
    UNION { { t \in [1..n -> {"a", " ", "\t"}] :
                /\ t[1] = "a" /\ t[n] = "a"
                /\ \A i \in 1..(n - 1) : ~ (t[i] = " " /\ t[i + 1] = " ") }
            : n \in 1..MaxDocLen }

\* one extracted document and --chunk-size, --chunk-overlap, --batch-size
DocumentInputs ==
    [url : {<<"p","1">>}, content : ExtractedTexts,
     chunk_size : {1, 2, 3}, chunk_overlap : {0}, batch_size : {1, 10}]
        \cup [url : {<<"p","1">>}, content : ExtractedTexts,
              chunk_size : {2, 3}, chunk_overlap : {1}, batch_size : {1, 10}]
        \cup [url : {<<"p","1">>}, content : {ScenarioText},
              chunk_size : {1000}, chunk_overlap : {100}, batch_size : {10}]

InitDocument ==
    /\ AtRest
    /\ index = {}
    /\ HarnessAtRest
    /\ ChunkAtRest /\ EmbedAtRest /\ RateAtRest /\ CrawlAtRest /\ IndexAtRest
    /\ ConfidenceAtRest /\ ApiAtRest /\ RetryAtRest /\ BatchAtRest
    /\ dp_in \in DocumentInputs
    /\ dp_points = <<>>

DocumentUnchanged ==
    UNCHANGED <<agentVars, classifyVars, ctorVars, chunkVars, embedVars, rateVars,
                crawlVars, indexVars, confidenceVars, apiVars, retryVars, batchVars,
                dp_in>>

\* PointStruct(id=doc.id, payload={"content": doc.content, "chunk_index": ...})
PointStruct(id, content, chunk_index) ==
    [id |-> id, content |-> content, chunk_index |-> chunk_index]

\* upsert: by id, a point with the id of a stored one replaces it
upsert(store, points) ==
    { p \in store : \A q \in points : q.id # p.id } \cup points

\* the chunk documents main() builds for enumerate(chunks), as points
chunk_points(doc, cs) ==
    { PointStruct(chunk_id(doc.url, i - 1, cs[i]), cs[i], i - 1) : i \in DOMAIN cs }

\* one pass of the storing loop with the services answering: the points of
\* the collection after it.  embed() returns a vector for every chunk that
\* is not blank; with fewer vectors than chunks nothing is stored
stored_points(doc) ==
    LET cs == chunk_text(doc.content, doc.chunk_size, doc.chunk_overlap).chunks
    IN  IF Len(doc.content) > max_content_length THEN {}
        ELSE IF not_chunked(doc, cs)
        THEN upsert({}, {PointStruct(document_id(doc.url, doc.content), doc.content, 0)})
        ELSE IF embedded_chunks(cs) = {} \/ Cardinality(embedded_chunks(cs)) # Len(cs)
        THEN {}
        ELSE upsert({}, chunk_points(doc, cs))

\* the document is chunked, embedded and stored
StoreDocument ==
    /\ dp_points = <<>>
    /\ dp_points' = [stored |-> stored_points(dp_in)]
    /\ UNCHANGED dp_in
    /\ DocumentUnchanged

NextDocument == StoreDocument

SpecDocument == InitDocument /\ [][NextDocument]_vars

\* text[a:b]
Slice(text, a, b) == SubSeq(text, a + 1, Min(b, Len(text)))

\* C31: ingesting a document longer than chunk_size stores exactly one
\* point per chunk chunk_text produces; the i-th point has chunk_index i
\* (from 0) and as content the i-th chunk, the substring that starts at
\* i * (chunk_size - chunk_overlap).  The 2500-character document with
\* chunk_size 1000 and chunk_overlap 100 gives 3 points with chunk_index 0,
\* 1, 2 that share 100 characters at each boundary.
C31_OnePointPerChunk ==
    (dp_points # <<>> /\ Len(dp_in.content) > dp_in.chunk_size) =>
        LET cs == chunk_text(dp_in.content, dp_in.chunk_size, dp_in.chunk_overlap).chunks
            step == dp_in.chunk_size - dp_in.chunk_overlap
            points == dp_points.stored
        IN  /\ Cardinality(points) = Len(cs)
            /\ \A i \in DOMAIN cs :
                  /\ cs[i] = Slice(dp_in.content, (i - 1) * step,
                                   (i - 1) * step + dp_in.chunk_size)
                  /\ \E p \in points : p.chunk_index = i - 1 /\ p.content = cs[i]
            /\ dp_in.content = ScenarioText =>
                  /\ { p.chunk_index : p \in points } = {0, 1, 2}
                  /\ \A p, q \in points :
                        q.chunk_index = p.chunk_index + 1 =>
                            Slice(p.content, 900, 1000) = Slice(q.content, 0, 100)

====
